---- MODULE Spec2Model ----
(***************************************************************************)
(* Task dispatch, result correlation and result caching of the scraper in  *)
(* its two deployments:                                                    *)
(*   "cluster": cluster_master.py (gateway) and cluster_worker.py          *)
(*              (executors), coupled through Redis;                        *)
(*   "pool":    api_server.py (gateway) and WorkerPool of                  *)
(*              worker_pool_v3.py (executor threads), coupled through two  *)
(*              in-process queues.                                         *)
(* A behaviour is one run of one deployment; Init chooses which.           *)
(***************************************************************************)
EXTENDS Integers, Sequences, FiniteSets, TLC

\* ------------------------------------------------------------------ bounds
\* Clock horizon, in ticks of the wall clock the gateways read.
MaxTime == 3
\* The gateways' wait bound (120 s in both) in ticks.
TimeoutTicks == 1
\* Executors (cluster worker processes, pool worker threads).
NumWorkers == 2
\* The largest max_retries a search is called with.
MaxRetries == 3
\* The searches one SeleniumWorker is asked for.
MaxSearches == 2
\* HEARTBEAT_INTERVAL (5 s) in ticks.
HeartbeatInterval == 1

\* scraper:result:{id} lives 180 s, longer than the 120 s a gateway waits.
ResultTTL == TimeoutTicks + 1
\* cache:{md5} lives 86400 s, longer than a result key.
CacheTTL == ResultTTL + 1

\* The HTTP handler threads that run concurrently: two, the least number in
\* which dispatch calls interfere with each other.
Calls == {1, 2}
Workers == 1..NumWorkers

\* -------------------------------------------------------------------- text
\* Text is a sequence of one-character strings.
Digit == {"0", "1", "2", "3", "4", "5", "6", "7", "8", "9"}

DigitVal(ch) ==
    CASE ch = "0" -> 0 [] ch = "1" -> 1 [] ch = "2" -> 2 [] ch = "3" -> 3
      [] ch = "4" -> 4 [] ch = "5" -> 5 [] ch = "6" -> 6 [] ch = "7" -> 7
      [] ch = "8" -> 8 [] ch = "9" -> 9

DigitChar(d) ==
    CASE d = 0 -> "0" [] d = 1 -> "1" [] d = 2 -> "2" [] d = 3 -> "3"
      [] d = 4 -> "4" [] d = 5 -> "5" [] d = 6 -> "6" [] d = 7 -> "7"
      [] d = 8 -> "8" [] d = 9 -> "9"

\* int(s) succeeds on a non-empty string of decimal digits.
IsNumeric(s) == Len(s) > 0 /\ \A i \in 1..Len(s) : s[i] \in Digit

RECURSIVE ParseInt(_)
ParseInt(s) ==
    IF Len(s) = 0 THEN 0
    ELSE 10 * ParseInt(SubSeq(s, 1, Len(s) - 1)) + DigitVal(s[Len(s)])

\* str(n) for n >= 0.
RECURSIVE Str(_)
Str(n) == IF n < 10 THEN <<DigitChar(n)>> ELSE Str(n \div 10) \o <<DigitChar(n % 10)>>

LowerChar(ch) == CASE ch = "A" -> "a" [] ch = "B" -> "b" [] OTHER -> ch

Lower(s) == [i \in 1..Len(s) |-> LowerChar(s[i])]

RECURSIVE Strip(_)
Strip(s) ==
    IF Len(s) = 0 THEN s
    ELSE IF s[1] = " " THEN Strip(Tail(s))
    ELSE IF s[Len(s)] = " " THEN Strip(SubSeq(s, 1, Len(s) - 1))
    ELSE s

Min(a, b) == IF a < b THEN a ELSE b
Max(a, b) == IF a > b THEN a ELSE b

\* ---------------------------------------------------------------- requests
\* What request.args can hold.  A missing parameter and an empty one are both
\* the empty text: `not query` is true of None and of ''.
Queries == {<<>>, <<"a">>}
Locations == {<<>>, <<"b">>}
LimitRaws == {<<"5">>, <<"x">>}

Requests == [query : Queries, location : Locations, limit : LimitRaws, use_cache : BOOLEAN]

NoReq == [query |-> <<>>, location |-> <<>>, limit |-> <<>>, use_cache |-> FALSE]

\* What the collaborator (the results page the browser loads) can list: the
\* records in page order.
OnePage == <<"r1", "r2">>
Pages == {<<"r1">>, <<"r2", "r1", "r3">>}

\* A slice that forgets the limit.
TakeAll(records, limit) == records

\* places[:limit], collected[:limit]
Take(records, limit) == SubSeq(records, 1, Min(limit, Len(records)))

\* ----------------------------------------------------------------- records
NoId == -1
NoElapsed == -1

\* A Task as it sits in a queue.  call is the dispatch call that created it
\* (history: two Tasks may carry the same id).
NoTask == [id |-> NoId, query |-> <<>>, location |-> <<>>, limit |-> 0, call |-> 0]

\* A Result.  task is the Task it answers (history), at the tick it was published.
\* late: its caller had already returned Timeout then (history).  limit is the
\* limit it was produced for (search_parameters.limit in the cluster worker's
\* result; history in the pool), payload the places, in the collaborator's order.
NoResult == [status |-> "none", task_id |-> NoId, task |-> 0, at |-> 0, exp |-> 0,
             late |-> FALSE, limit |-> 0, payload |-> <<>>]

\* The HTTP response of a dispatch call.
NoOutcome == [kind |-> "none", http |-> 0, from_cache |-> FALSE, task_id |-> NoId,
              task |-> 0, elapsed |-> NoElapsed, payload |-> <<>>]

Response(kind, http, from_cache, task_id, task, elapsed) ==
    [kind |-> kind, http |-> http, from_cache |-> from_cache, task_id |-> task_id,
     task |-> task, elapsed |-> elapsed, payload |-> <<>>]

\* The response that carries a Result's places.
ResultResponse(kind, http, from_cache, result) ==
    [Response(kind, http, from_cache, result.task_id, result.task, NoElapsed)
        EXCEPT !.payload = result.payload]

VARIABLES
    deployment,     \* "cluster" or "pool"
    now,            \* time.time()
    \* one HTTP handler thread per call
    pc,             \* "idle", "recv", "wait", "got", "check", "done"
    req,            \* the request's parameters
    tid,            \* task_id
    start,          \* start_time
    held,           \* the Result the call has read and not yet acted on
    outcome,        \* the response returned
    \* Redis
    scraper_tasks,  \* the list scraper:tasks, head first
    scraper_result, \* the keys scraper:result:{id}: id -> Result (with expiry)
    redis_cache,    \* the keys cache:{md5}: key -> [value, exp]
    heartbeat,      \* the workers whose key worker:{id}:heartbeat is live
    stats,          \* cluster_master.stats
    \* cluster worker processes
    wpc,            \* "off", "idle", "busy"
    wtask,          \* the Task being handled
    \* WorkerPool
    workers,        \* WorkerPool.workers: the workers whose initialize() succeeded
    task_queue,     \* WorkerPool.task_queue
    result_queue,   \* WorkerPool.result_queue
    cache_memory,   \* api_server.cache_memory: key -> Result
    current,        \* the Task a pool worker is searching for
    \* history
    claimed,        \* Task (by creating call) -> number of times it was dequeued
    finished,       \* Tasks whose Executor went back to its loop
    published,      \* the Results ever published
    delivered,      \* [task, to]: the Result of Task `task` was returned to call `to`
    requeued,       \* [task, by]: get_result of call `by` put back the Result of `task`
    asked,          \* history: the request each call made, as it arrived
    produced,       \* history: the records the collaborator returned for each call's Task
    \* cluster_master.clear_cache, one handler thread
    cpc,            \* "idle", "scan", "done"
    ckeys,          \* the keys scan_iter("cache:*") has yielded and the loop not yet deleted
    deleted,        \* deleted
    removed,        \* history: the keys DEL found and removed
    before_clear,   \* history: the entries (key and expiry) there when clear_cache was called
    \* one SeleniumWorker
    variant,        \* "v3": workers/worker_pool_v3.py, "v2": archive/worker_pool_v2.py
    max_retries,    \* the argument of search
    is_busy,
    total_searches,
    successful_searches,
    failed_searches,
    spc,            \* "idle", "loop", "returned"
    attempt,        \* the loop variable of search
    last_err,       \* last_err (v3), e (v2)
    sret,           \* what search returned
    tries,          \* history: the outcome of each collaborator call of the search
    \* cluster worker heartbeats
    hstate,         \* the heartbeat thread of each worker: "off", "up", "dead"
    lease,          \* the key worker:{id}:heartbeat: its expiry, 0 when there is none
    hdue,           \* when the thread's stop_event.wait(HEARTBEAT_INTERVAL) ends
    seen,           \* the `active` flag get_workers last computed for each worker
    hlast,          \* history: when the last SETEX of the heartbeat key succeeded
    steady,         \* history: every refresh of the thread came on time and succeeded
    gpc,            \* get_workers: "idle" or "listing"
    scanned,        \* get_workers: the keys scan_iter gave whose TTL is still to be read
    \* statistics
    stpc,           \* WorkerPool.get_stats: "idle" or "summing"
    st_total,       \* get_stats: total_searches, summed before the other counters are read
    pool_stats,     \* what WorkerPool.get_stats last returned
    dashboard,      \* what cluster_monitor.display_dashboard last showed
    \* shutdown
    is_running,     \* WorkerPool.is_running
    tpc,            \* each pool worker thread: "top", "get", "search", "sleep", "exited"
    driver,         \* each pool worker's browser: "open", "closed"
    stop_pc,        \* WorkerPool.stop: "idle", "sentinels", "close", "join", "done"
    stop_left,      \* the workers the running for loop of stop has still to visit
    sig_pc,         \* a cluster worker's main thread: "loop", "set", "quit", "exited"
    stop_event,     \* its stop_event
    hb_pc,          \* its heartbeat thread: "test", "setex", "wait", "ended"
    cdriver,        \* its browser: "open", "closed"
    \* extraction of the places
    extraction,     \* the extraction in hand: path, limit, the anchors the pages gave
                    \* (history), the places returned, the tasks served before it
    \* a worker process that dies
    lost,           \* (history) the calls whose Task an Executor held when it died
    \* the cache keys of texts that hold the key's delimiter
    keyed,          \* the cache as key -> request cached, the requests looked up, what
                    \* the last of them got
    \* the master's counters, one handler thread per call
    hpc,            \* where the handler is: "idle", "total", "total_nocache", "lookup",
                    \* "hits", "wait", "successful", "cache", "failed", "done"
    hreg,           \* the value the handler's += 1 is about to write (0: nothing read)
    mstats          \* the dict stats

callVars == <<pc, req, tid, start, held, outcome>>
redisVars == <<scraper_tasks, scraper_result, redis_cache, heartbeat, stats>>
workerVars == <<wpc, wtask>>
poolVars == <<workers, task_queue, result_queue, cache_memory, current>>
histVars == <<claimed, finished, published, delivered, requeued>>
askVars == <<asked, produced>>
clearVars == <<cpc, ckeys, deleted, removed, before_clear>>
searchVars == <<variant, max_retries, is_busy, total_searches, successful_searches,
                failed_searches, spc, attempt, last_err, sret, tries>>
leaseVars == <<hstate, lease, hdue, seen, hlast, steady, gpc, scanned>>
statVars == <<stpc, st_total, pool_stats, dashboard>>
stopVars == <<is_running, tpc, driver, stop_pc, stop_left, sig_pc, stop_event, hb_pc, cdriver>>
tailVars == <<keyed, hpc, hreg, mstats>>
moreVars == <<statVars, stopVars, extraction, lost, tailVars>>
extVars == <<askVars, clearVars, searchVars, leaseVars, moreVars>>
vars == <<deployment, now, callVars, redisVars, workerVars, poolVars, histVars, extVars>>

\* --------------------------------------------------------------- cache keys
\* hashlib.md5 taken as collision-free: the digest stands for the text hashed.
Md5(s) == <<"md5(">> \o s \o <<")">>

generate_cache_key(query, location, limit) ==
    <<"cache:">> \o Md5(query \o <<":">> \o location \o <<":">> \o Str(limit))

get_cache_key(query, location) == Strip(Lower(query \o <<"|">> \o location))

normalize_limit(limit_raw) ==
    LET n == IF IsNumeric(limit_raw) THEN ParseInt(limit_raw) ELSE 10
    IN  Max(1, Min(50, n))

\* Redis: a key is there until its TTL has run out.
Live(store, key) == key \in DOMAIN store /\ now < store[key].exp

Put(store, key, value) ==
    [k \in DOMAIN store \cup {key} |-> IF k = key THEN value ELSE store[k]]

Delete(store, key) == [k \in DOMAIN store \ {key} |-> store[k]]

\* -------------------------------------------------------------------- Init
\* The gateways and the executors after start-up.
CoreInit ==
    /\ deployment \in {"cluster", "pool"}
    /\ now = 0
    /\ pc = [c \in Calls |-> "idle"]
    /\ req = [c \in Calls |-> NoReq]
    /\ tid = [c \in Calls |-> NoId]
    /\ start = [c \in Calls |-> 0]
    /\ held = [c \in Calls |-> NoResult]
    /\ outcome = [c \in Calls |-> NoOutcome]
    /\ scraper_tasks = <<>>
    /\ scraper_result = <<>>
    /\ redis_cache = <<>>
    /\ heartbeat = {}
    /\ stats = [total_requests |-> 0, successful |-> 0, failed |-> 0, cache_hits |-> 0]
    /\ wpc = [w \in Workers |-> "off"]
    /\ wtask = [w \in Workers |-> NoTask]
    \* WorkerPool.start keeps the workers whose initialize() returned True: any
    \* number of them (which ones makes no difference, so the first k stand for
    \* every set of k)
    /\ workers \in IF deployment = "pool" THEN {1..k : k \in 0..NumWorkers} ELSE {{}}
    /\ task_queue = <<>>
    /\ result_queue = <<>>
    /\ cache_memory = <<>>
    /\ current = [w \in Workers |-> NoTask]
    /\ claimed = [c \in Calls |-> 0]
    /\ finished = {}
    /\ published = {}
    /\ delivered = {}
    /\ requeued = {}

NoRecords == <<"none">>

AskInit ==
    /\ asked = [c \in Calls |-> NoReq]
    /\ produced = [c \in Calls |-> NoRecords]

\* No clear_cache request yet.
ClearInit ==
    /\ cpc = "idle"
    /\ ckeys = {}
    /\ deleted = 0
    /\ removed = 0
    /\ before_clear = {}

\* What search returns: a success dict, an error dict, or (falling off the end of
\* the function) None.
NoReturn == [status |-> "None", error |-> "None"]

\* SeleniumWorker.__init__: the counters at 0, not busy.
WorkerObjectInit ==
    /\ is_busy = FALSE
    /\ total_searches = 0
    /\ successful_searches = 0
    /\ failed_searches = 0
    /\ spc = "idle"
    /\ attempt = 0
    /\ last_err = "None"
    /\ sret = NoReturn
    /\ tries = <<>>

\* No heartbeat thread started, no heartbeat key.
LeaseInit ==
    /\ hstate = [w \in Workers |-> "off"]
    /\ lease = [w \in Workers |-> 0]
    /\ hdue = [w \in Workers |-> 0]
    /\ seen = [w \in Workers |-> FALSE]
    /\ hlast = [w \in Workers |-> 0]
    /\ steady = [w \in Workers |-> TRUE]
    /\ gpc = "idle"
    /\ scanned = {}

\* A Python value or a raised exception.
Value(v) == [raised |-> FALSE, value |-> v]
Raises == [raised |-> TRUE, value |-> 0]

NoStats == [total_workers |-> 0, busy_workers |-> 0, available_workers |-> 0,
            total_searches |-> 0, successful_searches |-> 0, failed_searches |-> 0,
            success_rate |-> Value(0), returned |-> FALSE]
NoDashboard == [success_rate |-> Value(0), cache_hits |-> 0, cache_misses |-> 0,
                cache_rate |-> Value(0), shown |-> FALSE]

\* No statistics asked for yet.
StatInit ==
    /\ stpc = "idle"
    /\ st_total = 0
    /\ pool_stats = NoStats
    /\ dashboard = NoDashboard

\* WorkerPool.start has run (every worker in the pool has its browser and its
\* thread); a cluster worker's main has reached its loop.
StopInit ==
    /\ is_running = TRUE
    /\ tpc = [w \in Workers |-> IF w \in workers THEN "top" ELSE "exited"]
    /\ driver = [w \in Workers |-> IF w \in workers THEN "open" ELSE "closed"]
    /\ stop_pc = "idle"
    /\ stop_left = {}
    /\ sig_pc = "loop"
    /\ stop_event = FALSE
    /\ hb_pc = "test"
    /\ cdriver = "open"

NoExtraction == [path |-> "none", limit |-> 0, anchors |-> <<>>, places |-> <<>>,
                 done |-> FALSE, served |-> 0]

NoKeyed == [store |-> <<>>, asked |-> <<>>, got |-> <<>>]

\* cluster_master.py:39-46, the counters this section follows.
NoCounts == [total_requests |-> 0, successful |-> 0, failed |-> 0, cache_hits |-> 0]

TailInit ==
    /\ keyed = NoKeyed
    /\ hpc = [c \in Calls |-> "idle"]
    /\ hreg = [c \in Calls |-> 0]
    /\ mstats = NoCounts

MoreInit == StatInit /\ StopInit /\ extraction = NoExtraction /\ lost = {}
            /\ TailInit

Init ==
    /\ CoreInit
    /\ AskInit
    /\ ClearInit
    /\ WorkerObjectInit /\ variant = "v3" /\ max_retries = 2
    /\ LeaseInit
    /\ MoreInit

\* ------------------------------------------------------------------- clock
\* Redis drops a key when its TTL has run out.
Unexpired(store, t) == [k \in {x \in DOMAIN store : t < store[x].exp} |-> store[k]]

Tick ==
    /\ now < MaxTime
    /\ now' = now + 1
    /\ scraper_result' = Unexpired(scraper_result, now + 1)
    /\ redis_cache' = Unexpired(redis_cache, now + 1)
    /\ UNCHANGED <<deployment, callVars, scraper_tasks, heartbeat, stats,
                   workerVars, poolVars, histVars>>
    /\ UNCHANGED extVars

\* A request reaches a handler thread of the gateway.
Arrive(c, r) ==
    /\ pc[c] = "idle"
    /\ pc' = [pc EXCEPT ![c] = "recv"]
    /\ req' = [req EXCEPT ![c] = r]
    /\ UNCHANGED <<deployment, now, tid, start, held, outcome,
                   redisVars, workerVars, poolVars, histVars>>
    /\ UNCHANGED extVars

\* ------------------------------------------------ cluster_master.py: search
\* A lookup that never finds the key.
get_cached_result_miss(query, location, limit) == NoResult

\* get_cached_result: the value stored under the key, or NoResult.
get_cached_result(query, location, limit) ==
    LET cache_key == generate_cache_key(query, location, limit)
    IN  IF Live(redis_cache, cache_key) THEN redis_cache[cache_key].value ELSE NoResult

\* set_cached_result: SETEX cache_key ttl result.
set_cached_result(query, location, limit, result) ==
    Put(redis_cache, generate_cache_key(query, location, limit),
        [value |-> result, exp |-> now + CacheTTL])

\* task_id = f"task:{int(time.time() * 1000)}": the clock's reading.
MasterTaskId == now

\* Lines 124-153: parameters, validation, counters, cache lookup, LPUSH.
MasterSearch(c) ==
    /\ deployment = "cluster"
    /\ pc[c] = "recv"
    /\ LET query == req[c].query
           location == req[c].location
           limit == normalize_limit(req[c].limit)
           cached_result == get_cached_result(query, location, limit)
           task == [id |-> MasterTaskId, query |-> query, location |-> location,
                    limit |-> limit, call |-> c]
       IN  IF query = <<>> \/ location = <<>>
           THEN \* 400
                /\ pc' = [pc EXCEPT ![c] = "done"]
                /\ outcome' = [outcome EXCEPT ![c] =
                       Response("validation", 400, FALSE, NoId, 0, NoElapsed)]
                /\ req' = [req EXCEPT ![c] = NoReq]
                /\ UNCHANGED <<tid, start, stats, scraper_tasks>>
           ELSE IF req[c].use_cache /\ cached_result # NoResult
           THEN \* cache hit
                /\ pc' = [pc EXCEPT ![c] = "done"]
                /\ stats' = [stats EXCEPT !.total_requests = @ + 1, !.cache_hits = @ + 1]
                /\ outcome' = [outcome EXCEPT ![c] =
                       ResultResponse("cached", 200, TRUE, cached_result)]
                /\ req' = [req EXCEPT ![c] = NoReq]
                /\ UNCHANGED <<tid, start, scraper_tasks>>
           ELSE \* enqueue and start waiting
                /\ stats' = [stats EXCEPT !.total_requests = @ + 1]
                /\ tid' = [tid EXCEPT ![c] = MasterTaskId]
                /\ scraper_tasks' = <<task>> \o scraper_tasks
                /\ start' = [start EXCEPT ![c] = now]
                /\ pc' = [pc EXCEPT ![c] = "wait"]
                /\ req' = [req EXCEPT ![c] =
                       [query |-> query, location |-> location,
                        limit |-> Str(limit), use_cache |-> FALSE]]
                /\ UNCHANGED outcome
    /\ UNCHANGED <<deployment, now, held, scraper_result, redis_cache, heartbeat,
                   workerVars, poolVars, histVars>>
    /\ UNCHANGED extVars

\* Lines 155-158: one round of the wait loop that finds the result key.  A round
\* that finds nothing sleeps a second and changes nothing.
MasterGet(c) ==
    /\ deployment = "cluster"
    /\ pc[c] = "wait"
    /\ now - start[c] < TimeoutTicks
    /\ Live(scraper_result, tid[c])
    /\ held' = [held EXCEPT ![c] = scraper_result[tid[c]]]
    /\ pc' = [pc EXCEPT ![c] = "got"]
    /\ UNCHANGED <<deployment, now, req, tid, start, outcome,
                   redisVars, workerVars, poolVars, histVars>>
    /\ UNCHANGED extVars

\* A test that takes every Result for a success.
IsSuccessAlways(result_data) == TRUE

\* Line 163: result_data.get('status') == 'success'
IsSuccess(result_data) == result_data.status = "success"

\* Lines 160-172: DEL of the result key, counters, cache, response.
MasterConsume(c) ==
    /\ deployment = "cluster"
    /\ pc[c] = "got"
    /\ scraper_result' = Delete(scraper_result, tid[c])
    /\ IF IsSuccess(held[c])
       THEN /\ stats' = [stats EXCEPT !.successful = @ + 1]
            /\ redis_cache' = set_cached_result(req[c].query, req[c].location,
                                                ParseInt(req[c].limit), held[c])
       ELSE /\ stats' = [stats EXCEPT !.failed = @ + 1]
            /\ UNCHANGED redis_cache
    /\ outcome' = [outcome EXCEPT ![c] =
           ResultResponse(held[c].status, 200, FALSE, held[c])]
    /\ delivered' = delivered \cup {[task |-> held[c].task, to |-> c, late |-> held[c].late,
                                     at |-> now]}
    /\ pc' = [pc EXCEPT ![c] = "done"]
    /\ held' = [held EXCEPT ![c] = NoResult]
    /\ req' = [req EXCEPT ![c] = NoReq]
    /\ UNCHANGED <<deployment, now, tid, start, scraper_tasks, heartbeat,
                   workerVars, poolVars, claimed, finished, published, requeued>>
    /\ UNCHANGED extVars

\* Lines 176-178: the loop ran out; 504 with status "error" and no elapsed time.
MasterTimeout(c) ==
    /\ deployment = "cluster"
    /\ pc[c] = "wait"
    /\ ~(now - start[c] < TimeoutTicks)
    /\ stats' = [stats EXCEPT !.failed = @ + 1]
    /\ outcome' = [outcome EXCEPT ![c] =
           Response("timeout", 504, FALSE, NoId, 0, NoElapsed)]
    /\ pc' = [pc EXCEPT ![c] = "done"]
    /\ req' = [req EXCEPT ![c] = NoReq]
    /\ UNCHANGED <<deployment, now, tid, start, held, scraper_tasks, scraper_result,
                   redis_cache, heartbeat, workerVars, poolVars, histVars>>
    /\ UNCHANGED extVars

\* ------------------------------------------------- cluster_worker.py: main
\* Lines 534-559: connect, start Chrome, start the heartbeat thread.
WorkerStart(w) ==
    /\ deployment = "cluster"
    /\ wpc[w] = "off"
    /\ wpc' = [wpc EXCEPT ![w] = "idle"]
    /\ heartbeat' = heartbeat \cup {w}
    /\ UNCHANGED <<deployment, now, callVars, scraper_tasks, scraper_result,
                   redis_cache, stats, wtask, poolVars, histVars>>
    /\ UNCHANGED extVars

\* A pop that leaves the item on the list.
BrpopPeek(list) == [item |-> list[Len(list)], rest |-> list]

\* BRPOP scraper:tasks: the tail of the list and the list without it.
Brpop(list) == [item |-> list[Len(list)], rest |-> SubSeq(list, 1, Len(list) - 1)]

\* Lines 581-592: the blocking pop, json.loads, the task's id.
WorkerBrpop(w) ==
    /\ deployment = "cluster"
    /\ wpc[w] = "idle"
    /\ scraper_tasks # <<>>
    /\ LET got == Brpop(scraper_tasks)
       IN  /\ wtask' = [wtask EXCEPT ![w] = got.item]
           /\ scraper_tasks' = got.rest
           /\ claimed' = [claimed EXCEPT ![got.item.call] = @ + 1]
    /\ wpc' = [wpc EXCEPT ![w] = "busy"]
    /\ UNCHANGED <<deployment, now, callVars, scraper_result, redis_cache, heartbeat,
                   stats, poolVars, finished, published, delivered, requeued>>
    /\ UNCHANGED extVars

\* Lines 594-611: handle_task returns (ok) the first limit records of the page
\* or raises, and SETEX of the result key.
WorkerPublish(w, ok, page) ==
    /\ deployment = "cluster"
    /\ wpc[w] = "busy"
    /\ LET task_id == wtask[w].id
           res == [status |-> IF ok THEN "success" ELSE "error", task_id |-> task_id,
                   task |-> wtask[w].call, at |-> now, exp |-> now + ResultTTL,
                   late |-> outcome[wtask[w].call].kind = "timeout",
                   limit |-> wtask[w].limit,
                   payload |-> IF ok THEN Take(page, wtask[w].limit) ELSE <<>>]
       IN  /\ scraper_result' = Put(scraper_result, task_id, res)
           /\ published' = published \cup {[task_id |-> task_id, task |-> wtask[w].call]}
           /\ produced' = IF ok THEN [produced EXCEPT ![wtask[w].call] = res.payload]
                                ELSE produced
    /\ finished' = finished \cup {wtask[w].call}
    /\ wpc' = [wpc EXCEPT ![w] = "idle"]
    /\ wtask' = [wtask EXCEPT ![w] = NoTask]
    /\ UNCHANGED <<deployment, now, callVars, scraper_tasks, redis_cache, heartbeat,
                   stats, poolVars, claimed, delivered, requeued>>
    /\ UNCHANGED <<asked, clearVars, searchVars, leaseVars, moreVars>>

\* Lines 609, 613-616: SETEX raises (Redis unreachable); the loop logs, sleeps and
\* goes on to the next BRPOP.
WorkerPublishFail(w) ==
    /\ deployment = "cluster"
    /\ wpc[w] = "busy"
    /\ finished' = finished \cup {wtask[w].call}
    /\ wpc' = [wpc EXCEPT ![w] = "idle"]
    /\ wtask' = [wtask EXCEPT ![w] = NoTask]
    /\ UNCHANGED <<deployment, now, callVars, redisVars, poolVars,
                   claimed, published, delivered, requeued>>
    /\ UNCHANGED extVars

\* --------------------------------------------------- api_server.py: search
\* uuid.uuid4(): a value no other call draws.
Uuid4(c) == c

\* WorkerPool.get_stats, the two fields search reads.
total_workers == Cardinality(workers)
available_workers == Cardinality(workers) - Cardinality({w \in workers : current[w] # NoTask})

\* Lines 119-159: parameters, validation, cache lookup, worker check, submit_task.
ApiSearch(c) ==
    /\ deployment = "pool"
    /\ pc[c] = "recv"
    /\ LET query == Strip(req[c].query)
           location == Strip(req[c].location)
           cache_key == get_cache_key(query, location)
           task_id == Uuid4(c)
       IN  IF ~IsNumeric(req[c].limit)
           THEN \* int() raises ValueError; nothing catches it
                /\ pc' = [pc EXCEPT ![c] = "done"]
                /\ outcome' = [outcome EXCEPT ![c] =
                       Response("unhandled", 500, FALSE, NoId, 0, NoElapsed)]
                /\ req' = [req EXCEPT ![c] = NoReq]
                /\ UNCHANGED <<tid, start, task_queue>>
           ELSE IF query = <<>> \/ location = <<>>
           THEN \* 400
                /\ pc' = [pc EXCEPT ![c] = "done"]
                /\ outcome' = [outcome EXCEPT ![c] =
                       Response("validation", 400, FALSE, NoId, 0, NoElapsed)]
                /\ req' = [req EXCEPT ![c] = NoReq]
                /\ UNCHANGED <<tid, start, task_queue>>
           ELSE IF cache_key \in DOMAIN cache_memory
           THEN \* cache hit
                /\ pc' = [pc EXCEPT ![c] = "done"]
                /\ outcome' = [outcome EXCEPT ![c] =
                       ResultResponse("cached", 200, TRUE, cache_memory[cache_key])]
                /\ req' = [req EXCEPT ![c] = NoReq]
                /\ UNCHANGED <<tid, start, task_queue>>
           ELSE IF available_workers = 0 /\ total_workers = 0
           THEN \* 503
                /\ pc' = [pc EXCEPT ![c] = "done"]
                /\ outcome' = [outcome EXCEPT ![c] =
                       Response("noexec", 503, FALSE, NoId, 0, NoElapsed)]
                /\ req' = [req EXCEPT ![c] = NoReq]
                /\ UNCHANGED <<tid, start, task_queue>>
           ELSE \* submit_task, then get_result starts
                /\ tid' = [tid EXCEPT ![c] = task_id]
                /\ task_queue' = Append(task_queue,
                       [id |-> task_id, query |-> query, location |-> location,
                        limit |-> ParseInt(req[c].limit), call |-> c])
                /\ start' = [start EXCEPT ![c] = now]
                /\ pc' = [pc EXCEPT ![c] = "wait"]
                /\ req' = [req EXCEPT ![c] =
                       [query |-> query, location |-> location,
                        limit |-> req[c].limit, use_cache |-> FALSE]]
                /\ UNCHANGED outcome
    /\ UNCHANGED <<deployment, now, held, redisVars, workerVars, workers, result_queue,
                   cache_memory, current, histVars>>
    /\ UNCHANGED extVars

\* --------------------------------------- worker_pool_v3.py: get_result
\* A test that takes every item for the caller's.
MatchesAny(task_id, item) == TRUE

\* Line 769: the item is the caller's.
Matches(task_id, item) == task_id = NoId \/ item.task_id = task_id

\* Lines 766-768: the loop's test and result_queue.get.  A get that times out
\* raises queue.Empty and the loop goes round.
GetResultTake(c) ==
    /\ deployment = "pool"
    /\ pc[c] = "wait"
    /\ now < start[c] + TimeoutTicks
    /\ result_queue # <<>>
    /\ held' = [held EXCEPT ![c] = Head(result_queue)]
    /\ result_queue' = Tail(result_queue)
    /\ pc' = [pc EXCEPT ![c] = "check"]
    /\ UNCHANGED <<deployment, now, req, tid, start, outcome, redisVars, workerVars,
                   workers, task_queue, cache_memory, current, histVars>>
    /\ UNCHANGED extVars

\* Line 772, result_queue.put(item) on an unbounded queue.Queue: the item goes
\* to the tail.
PutBackDrops(q, item) == q

PutBack(q, item) == Append(q, item)

\* Lines 771-772: not the caller's item; back onto the queue.
GetResultRequeue(c) ==
    /\ deployment = "pool"
    /\ pc[c] = "check"
    /\ ~Matches(tid[c], held[c])
    /\ result_queue' = PutBack(result_queue, held[c])
    /\ requeued' = requeued \cup {[task |-> held[c].task, by |-> c]}
    /\ held' = [held EXCEPT ![c] = NoResult]
    /\ pc' = [pc EXCEPT ![c] = "wait"]
    /\ UNCHANGED <<deployment, now, req, tid, start, outcome, redisVars, workerVars,
                   workers, task_queue, cache_memory, current,
                   claimed, finished, published, delivered>>
    /\ UNCHANGED extVars

\* Lines 769-770 and api_server 170-179: get_result returns the item; an error
\* Result goes out as 500, any other is cached and goes out as 200.
GetResultReturn(c) ==
    /\ deployment = "pool"
    /\ pc[c] = "check"
    /\ Matches(tid[c], held[c])
    /\ IF held[c].status = "error"
       THEN /\ outcome' = [outcome EXCEPT ![c] =
                   ResultResponse("error", 500, FALSE, held[c])]
            /\ UNCHANGED cache_memory
       ELSE /\ cache_memory' = Put(cache_memory,
                   get_cache_key(req[c].query, req[c].location), held[c])
            /\ outcome' = [outcome EXCEPT ![c] =
                   ResultResponse("success", 200, FALSE, held[c])]
    /\ delivered' = delivered \cup {[task |-> held[c].task, to |-> c, late |-> held[c].late,
                                     at |-> now]}
    /\ held' = [held EXCEPT ![c] = NoResult]
    /\ pc' = [pc EXCEPT ![c] = "done"]
    /\ req' = [req EXCEPT ![c] = NoReq]
    /\ UNCHANGED <<deployment, now, tid, start, redisVars, workerVars,
                   workers, task_queue, result_queue, current,
                   claimed, finished, published, requeued>>
    /\ UNCHANGED extVars

\* Lines 766, 775 and api_server 161-168: the deadline has passed; 504 with the
\* elapsed time.
ApiTimeout(c) ==
    /\ deployment = "pool"
    /\ pc[c] = "wait"
    /\ ~(now < start[c] + TimeoutTicks)
    /\ outcome' = [outcome EXCEPT ![c] =
           Response("timeout", 504, FALSE, NoId, 0, now - start[c])]
    /\ pc' = [pc EXCEPT ![c] = "done"]
    /\ req' = [req EXCEPT ![c] = NoReq]
    /\ UNCHANGED <<deployment, now, tid, start, held, redisVars, workerVars,
                   poolVars, histVars>>
    /\ UNCHANGED extVars

\* -------------------------------------- worker_pool_v3.py: _worker_loop
\* Lines 731-738: task_queue.get.
PoolGet(w) ==
    /\ deployment = "pool"
    /\ w \in workers
    /\ current[w] = NoTask
    /\ task_queue # <<>>
    /\ current' = [current EXCEPT ![w] = Head(task_queue)]
    /\ task_queue' = Tail(task_queue)
    /\ claimed' = [claimed EXCEPT ![Head(task_queue).call] = @ + 1]
    /\ UNCHANGED <<deployment, now, callVars, redisVars, workerVars,
                   workers, result_queue, cache_memory,
                   finished, published, delivered, requeued>>
    /\ UNCHANGED extVars

\* Lines 740-757: worker.search returns a success dict with the first limit
\* records of the page or an error dict, or raises; the Result, tagged with the
\* task's id, goes onto result_queue.
PoolPut(w, ok, page) ==
    /\ deployment = "pool"
    /\ w \in workers
    /\ current[w] # NoTask
    /\ LET task == current[w]
           result == [status |-> IF ok THEN "success" ELSE "error", task_id |-> task.id,
                      task |-> task.call, at |-> now, exp |-> 0,
                      late |-> outcome[task.call].kind = "timeout",
                      limit |-> task.limit,
                      payload |-> IF ok THEN Take(page, task.limit) ELSE <<>>]
       IN  /\ result_queue' = Append(result_queue, result)
           /\ published' = published \cup {[task_id |-> task.id, task |-> task.call]}
           /\ finished' = finished \cup {task.call}
           /\ produced' = IF ok THEN [produced EXCEPT ![task.call] = result.payload]
                                ELSE produced
    /\ current' = [current EXCEPT ![w] = NoTask]
    /\ UNCHANGED <<deployment, now, callVars, redisVars, workerVars,
                   workers, task_queue, cache_memory,
                   claimed, delivered, requeued>>
    /\ UNCHANGED <<asked, clearVars, searchVars, leaseVars, moreVars>>

\* ------------------------------------------------------------------- Next
Next ==
    \/ Tick
    \/ \E c \in Calls, r \in Requests : Arrive(c, r)
    \/ \E c \in Calls : MasterSearch(c)
    \/ \E c \in Calls : MasterGet(c)
    \/ \E c \in Calls : MasterConsume(c)
    \/ \E c \in Calls : MasterTimeout(c)
    \/ \E w \in Workers : WorkerStart(w)
    \/ \E w \in Workers : WorkerBrpop(w)
    \/ \E w \in Workers, ok \in BOOLEAN : WorkerPublish(w, ok, OnePage)
    \/ \E w \in Workers : WorkerPublishFail(w)
    \/ \E c \in Calls : ApiSearch(c)
    \/ \E c \in Calls : GetResultTake(c)
    \/ \E c \in Calls : GetResultRequeue(c)
    \/ \E c \in Calls : GetResultReturn(c)
    \/ \E c \in Calls : ApiTimeout(c)
    \/ \E w \in Workers : PoolGet(w)
    \/ \E w \in Workers, ok \in BOOLEAN : PoolPut(w, ok, OnePage)

Spec == Init /\ [][Next]_vars

\* ============================================ the cache, request after request
\* Requests that pass validation: one, the same with another limit, and the same
\* in other letter case and with a leading blank.
CacheRequests ==
    {[query |-> <<"a">>, location |-> <<"b">>, limit |-> <<"1">>, use_cache |-> TRUE],
     [query |-> <<"a">>, location |-> <<"b">>, limit |-> <<"2">>, use_cache |-> TRUE],
     [query |-> <<" ", "a">>, location |-> <<"B">>, limit |-> <<"1">>, use_cache |-> TRUE]}

\* The Executor at work while the cache is looked at.
CacheWorkers == {1}

\* A request reaches the gateway when the one before it has been answered.
ArriveInTurn(c, r) ==
    /\ pc[c] = "idle"
    /\ \A d \in Calls : d < c => pc[d] = "done"
    /\ pc' = [pc EXCEPT ![c] = "recv"]
    /\ req' = [req EXCEPT ![c] = r]
    /\ asked' = [asked EXCEPT ![c] = r]
    /\ UNCHANGED <<deployment, now, tid, start, held, outcome,
                   redisVars, workerVars, poolVars, histVars>>
    /\ UNCHANGED <<produced, clearVars, searchVars, leaseVars, moreVars>>

\* ---------------------------------------- cluster_master.py: clear_cache
\* Lines 205-206: scan_iter("cache:*") yields the keys that are there.
ClearScan ==
    /\ deployment = "cluster"
    /\ cpc = "idle"
    /\ cpc' = "scan"
    /\ ckeys' = DOMAIN redis_cache
    /\ before_clear' = {[key |-> k, exp |-> redis_cache[k].exp] : k \in DOMAIN redis_cache}
    /\ UNCHANGED <<deleted, removed>>
    /\ UNCHANGED <<deployment, now, callVars, redisVars, workerVars, poolVars, histVars>>
    /\ UNCHANGED <<askVars, searchVars, leaseVars, moreVars>>

\* Lines 206-207: redis_client.delete(key); deleted += 1.
ClearDelete(k) ==
    /\ cpc = "scan"
    /\ k \in ckeys
    /\ redis_cache' = Delete(redis_cache, k)
    /\ deleted' = deleted + 1
    /\ removed' = removed + (IF k \in DOMAIN redis_cache THEN 1 ELSE 0)
    /\ ckeys' = ckeys \ {k}
    /\ UNCHANGED <<cpc, before_clear>>
    /\ UNCHANGED <<deployment, now, callVars, scraper_tasks, scraper_result, heartbeat,
                   stats, workerVars, poolVars, histVars>>
    /\ UNCHANGED <<askVars, searchVars, leaseVars, moreVars>>

\* Line 208: the response {'status': 'success', 'deleted_keys': deleted}.
ClearReturn ==
    /\ cpc = "scan"
    /\ ckeys = {}
    /\ cpc' = "done"
    /\ UNCHANGED <<ckeys, deleted, removed, before_clear>>
    /\ UNCHANGED <<deployment, now, callVars, redisVars, workerVars, poolVars, histVars>>
    /\ UNCHANGED <<askVars, searchVars, leaseVars, moreVars>>

CacheNext ==
    \/ Tick
    \/ \E c \in Calls, r \in CacheRequests : ArriveInTurn(c, r)
    \/ \E c \in Calls : MasterSearch(c)
    \/ \E c \in Calls : MasterGet(c)
    \/ \E c \in Calls : MasterConsume(c)
    \/ \E c \in Calls : MasterTimeout(c)
    \/ \E w \in CacheWorkers : WorkerStart(w)
    \/ \E w \in CacheWorkers : WorkerBrpop(w)
    \/ \E w \in CacheWorkers, ok \in BOOLEAN, page \in Pages : WorkerPublish(w, ok, page)
    \/ \E w \in CacheWorkers : WorkerPublishFail(w)
    \/ \E c \in Calls : ApiSearch(c)
    \/ \E c \in Calls : GetResultTake(c)
    \/ \E c \in Calls : GetResultRequeue(c)
    \/ \E c \in Calls : GetResultReturn(c)
    \/ \E c \in Calls : ApiTimeout(c)
    \/ \E w \in CacheWorkers : PoolGet(w)
    \/ \E w \in CacheWorkers, ok \in BOOLEAN, page \in Pages : PoolPut(w, ok, page)
    \/ ClearScan
    \/ \E k \in ckeys : ClearDelete(k)
    \/ ClearReturn

CacheSpec == Init /\ [][CacheNext]_vars

\* ================================================== SeleniumWorker.search
\* The exceptions _perform_search raises.
Reasons == {"e1", "e2"}

\* A loop test that lets one attempt too many through.
MoreAttemptsOffByOne(n, retries) == n <= retries

\* for attempt in range(max_retries): there is another attempt to make.
MoreAttempts(n, retries) == n < retries

\* A count of failed attempts instead of failed searches.
CountFailedAttempts(failed, attempts) == failed + attempts

\* self.failed_searches += 1, once for the search, however many attempts failed.
CountFailedSearch(failed, attempts) == failed + 1

\* {"status": "error", "error": str(last_err or "erro desconhecido"), ...}
ErrorReturn(err) ==
    [status |-> "error", error |-> IF err = "None" THEN "erro desconhecido" ELSE err]

\* v3 lines 275-277, v2 lines 126-127: search is called.
SearchCall ==
    /\ spc = "idle"
    /\ total_searches < MaxSearches
    /\ is_busy' = TRUE
    /\ total_searches' = total_searches + 1
    /\ last_err' = "None"
    /\ attempt' = 0
    /\ tries' = <<>>
    /\ sret' = NoReturn
    /\ spc' = "loop"
    /\ UNCHANGED <<variant, max_retries, successful_searches, failed_searches>>
    /\ UNCHANGED <<deployment, now, callVars, redisVars, workerVars, poolVars, histVars>>
    /\ UNCHANGED <<askVars, clearVars, leaseVars, moreVars>>

\* v3 lines 279-289, v2 lines 129-146: one pass of the loop; _perform_search
\* returns (res = "ok") or raises res.
SearchAttempt(res) ==
    /\ spc = "loop"
    /\ MoreAttempts(attempt, max_retries)
    /\ tries' = Append(tries, res)
    /\ IF res = "ok"
       THEN /\ successful_searches' = successful_searches + 1
            /\ is_busy' = FALSE
            /\ sret' = [status |-> "success", error |-> "None"]
            /\ spc' = "returned"
            /\ UNCHANGED <<attempt, last_err, failed_searches>>
       ELSE IF variant = "v2" /\ ~(attempt < max_retries - 1)
       THEN \* v2 lines 139-146: the last attempt failed
            /\ failed_searches' = CountFailedSearch(failed_searches, Len(tries) + 1)
            /\ is_busy' = FALSE
            /\ last_err' = res
            /\ sret' = ErrorReturn(res)
            /\ spc' = "returned"
            /\ UNCHANGED <<attempt, successful_searches>>
       ELSE \* the exception is kept and the loop goes round
            /\ last_err' = res
            /\ attempt' = attempt + 1
            /\ UNCHANGED <<is_busy, successful_searches, failed_searches, sret, spc>>
    /\ UNCHANGED <<variant, max_retries, total_searches>>
    /\ UNCHANGED <<deployment, now, callVars, redisVars, workerVars, poolVars, histVars>>
    /\ UNCHANGED <<askVars, clearVars, leaseVars, moreVars>>

\* The loop has run out.  v3 lines 291-293: the error dict.  v2: the function
\* ends without a return statement (only when max_retries < 1) and yields None.
SearchExhausted ==
    /\ spc = "loop"
    /\ ~MoreAttempts(attempt, max_retries)
    /\ IF variant = "v3"
       THEN /\ failed_searches' = CountFailedSearch(failed_searches, Len(tries))
            /\ is_busy' = FALSE
            /\ sret' = ErrorReturn(last_err)
       ELSE /\ sret' = NoReturn
            /\ UNCHANGED <<failed_searches, is_busy>>
    /\ spc' = "returned"
    /\ UNCHANGED <<variant, max_retries, total_searches, successful_searches, attempt,
                   last_err, tries>>
    /\ UNCHANGED <<deployment, now, callVars, redisVars, workerVars, poolVars, histVars>>
    /\ UNCHANGED <<askVars, clearVars, leaseVars, moreVars>>

\* The caller has the return value; the worker goes on to its next task.
SearchDone ==
    /\ spc = "returned"
    /\ spc' = "idle"
    /\ UNCHANGED <<variant, max_retries, is_busy, total_searches, successful_searches,
                   failed_searches, attempt, last_err, sret, tries>>
    /\ UNCHANGED <<deployment, now, callVars, redisVars, workerVars, poolVars, histVars>>
    /\ UNCHANGED <<askVars, clearVars, leaseVars, moreVars>>

\* One SeleniumWorker of either version, called with any max_retries.
SearchInit ==
    /\ CoreInit /\ deployment = "pool" /\ workers = Workers
    /\ AskInit
    /\ ClearInit
    /\ LeaseInit
    /\ WorkerObjectInit
    /\ variant \in {"v3", "v2"}
    /\ max_retries \in 0..MaxRetries
    /\ MoreInit

SearchNext ==
    \/ SearchCall
    \/ \E res \in {"ok"} \cup Reasons : SearchAttempt(res)
    \/ SearchExhausted
    \/ SearchDone

SearchSpec == SearchInit /\ [][SearchNext]_vars

\* ======================================================= heartbeat lease
\* HEARTBEAT_TTL (60 s) in ticks: longer than the interval, as 60 is than 5.
HeartbeatTTL == HeartbeatInterval + 1

\* The worker processes whose heartbeat keys are followed.
LeaseWorkers == {1, 2}

\* The key worker:{id}:heartbeat is in Redis.
LeaseLive(w) == now < lease[w]

\* redis_client.ttl(key): the time left, -2 when the key is not there.
RedisTtl(w) == IF LeaseLive(w) THEN lease[w] - now ELSE -2

\* A test of truthiness alone, which -2 passes.
IsActiveTruthy(ttl) == ttl # 0

\* is_active = True if ttl and ttl > 0 else False
IsActive(ttl) == ttl # 0 /\ ttl > 0

\* cluster_worker.py main, lines 557-560: the process starts (or is started
\* again under the same id) and with it the heartbeat thread.
HeartbeatStart(w) ==
    /\ hstate[w] \in {"off", "dead"}
    /\ hstate' = [hstate EXCEPT ![w] = "up"]
    /\ hdue' = [hdue EXCEPT ![w] = now]
    /\ UNCHANGED <<lease, seen, hlast, steady, gpc, scanned>>
    /\ UNCHANGED <<deployment, now, callVars, redisVars, workerVars, poolVars, histVars>>
    /\ UNCHANGED <<askVars, clearVars, searchVars, moreVars>>

\* heartbeat_loop, lines 475-478 and 481: SETEX with HEARTBEAT_TTL, then the
\* wait of HEARTBEAT_INTERVAL.
HeartbeatRefresh(w) ==
    /\ hstate[w] = "up"
    /\ hdue[w] <= now
    /\ lease' = [lease EXCEPT ![w] = now + HeartbeatTTL]
    /\ hlast' = [hlast EXCEPT ![w] = now]
    /\ hdue' = [hdue EXCEPT ![w] = now + HeartbeatInterval]
    /\ UNCHANGED <<hstate, seen, steady, gpc, scanned>>
    /\ UNCHANGED <<deployment, now, callVars, redisVars, workerVars, poolVars, histVars>>
    /\ UNCHANGED <<askVars, clearVars, searchVars, moreVars>>

\* heartbeat_loop, lines 479-481: SETEX raises; the thread logs and waits.
HeartbeatFail(w) ==
    /\ hstate[w] = "up"
    /\ hdue[w] <= now
    /\ hdue' = [hdue EXCEPT ![w] = now + HeartbeatInterval]
    /\ steady' = [steady EXCEPT ![w] = FALSE]
    /\ UNCHANGED <<hstate, lease, seen, hlast, gpc, scanned>>
    /\ UNCHANGED <<deployment, now, callVars, redisVars, workerVars, poolVars, histVars>>
    /\ UNCHANGED <<askVars, clearVars, searchVars, moreVars>>

\* The process crashes, is killed, or _graceful_exit sets stop_event (lines
\* 562-575): the thread ends; nothing deletes the key.
HeartbeatStop(w) ==
    /\ hstate[w] = "up"
    /\ hstate' = [hstate EXCEPT ![w] = "dead"]
    /\ steady' = [steady EXCEPT ![w] = FALSE]
    /\ UNCHANGED <<lease, hdue, seen, hlast, gpc, scanned>>
    /\ UNCHANGED <<deployment, now, callVars, redisVars, workerVars, poolVars, histVars>>
    /\ UNCHANGED <<askVars, clearVars, searchVars, moreVars>>

\* Time passes.  A thread whose wait had ended and that did not get to its
\* SETEX in time has missed an interval.
LeaseTick ==
    /\ now < MaxTime
    /\ now' = now + 1
    /\ steady' = [w \in Workers |->
                     steady[w] /\ ~(hstate[w] = "up" /\ hdue[w] <= now)]
    /\ UNCHANGED <<hstate, lease, hdue, seen, hlast, gpc, scanned>>
    /\ UNCHANGED <<deployment, callVars, redisVars, workerVars, poolVars, histVars>>
    /\ UNCHANGED <<askVars, clearVars, searchVars, moreVars>>

\* cluster_master.py get_workers line 101 (get_stats line 189):
\* scan_iter("worker:*:heartbeat") gives the keys that are there.
GetWorkersScan ==
    /\ gpc = "idle"
    /\ gpc' = "listing"
    /\ scanned' = {w \in LeaseWorkers : LeaseLive(w)}
    /\ seen' = [w \in Workers |-> FALSE]
    /\ UNCHANGED <<hstate, lease, hdue, hlast, steady>>
    /\ UNCHANGED <<deployment, now, callVars, redisVars, workerVars, poolVars, histVars>>
    /\ UNCHANGED <<askVars, clearVars, searchVars, moreVars>>

\* get_workers lines 106-113 (get_stats 190-192): the TTL of one key is read
\* and the worker's active flag computed from it.
GetWorkersTtl(w) ==
    /\ gpc = "listing"
    /\ w \in scanned
    /\ seen' = [seen EXCEPT ![w] = IsActive(RedisTtl(w))]
    /\ scanned' = scanned \ {w}
    /\ UNCHANGED <<hstate, lease, hdue, hlast, steady, gpc>>
    /\ UNCHANGED <<deployment, now, callVars, redisVars, workerVars, poolVars, histVars>>
    /\ UNCHANGED <<askVars, clearVars, searchVars, moreVars>>

\* get_workers lines 115-116: the workers with active set are returned.
GetWorkersReturn ==
    /\ gpc = "listing"
    /\ scanned = {}
    /\ gpc' = "idle"
    /\ UNCHANGED <<hstate, lease, hdue, seen, hlast, steady, scanned>>
    /\ UNCHANGED <<deployment, now, callVars, redisVars, workerVars, poolVars, histVars>>
    /\ UNCHANGED <<askVars, clearVars, searchVars, moreVars>>

LeaseNext ==
    \/ LeaseTick
    \/ \E w \in LeaseWorkers : HeartbeatStart(w)
    \/ \E w \in LeaseWorkers : HeartbeatRefresh(w)
    \/ \E w \in LeaseWorkers : HeartbeatFail(w)
    \/ \E w \in LeaseWorkers : HeartbeatStop(w)
    \/ GetWorkersScan
    \/ \E w \in LeaseWorkers : GetWorkersTtl(w)
    \/ GetWorkersReturn

\* The cluster with its worker processes not yet started.
LeaseInit0 ==
    /\ CoreInit /\ deployment = "cluster"
    /\ AskInit
    /\ ClearInit
    /\ WorkerObjectInit /\ variant = "v3" /\ max_retries = 2
    /\ LeaseInit
    /\ MoreInit

LeaseSpec == LeaseInit0 /\ [][LeaseNext]_vars

\* ============================================================ statistics
\* Python's a / b: ZeroDivisionError when b is 0.  The quotient is kept in
\* hundredths, rounded as round(x, 2) rounds (half to even).
Abs(n) == IF n < 0 THEN -n ELSE n

RoundHalfEven(num, den) ==
    LET q == num \div den
        r == num % den
    IN  IF 2 * r > den THEN q + 1
        ELSE IF 2 * r = den THEN q + (q % 2)
        ELSE q

PercentOf(a, b) == IF b = 0 THEN Raises ELSE Value(RoundHalfEven(a * 10000, b))

\* The rate computed without its guard.
SuccessRateUnguarded(successful, total) == PercentOf(successful, total)

\* round(successful / total_searches * 100, 2) if total_searches > 0 else 0
SuccessRate(successful, total) ==
    IF total > 0 THEN PercentOf(successful, total) ELSE Value(0)

\* dict.get(key, default)
Get(d, key, default) == IF key \in DOMAIN d THEN d[key] ELSE default

\* cluster_master.get_stats: the body of the response to GET /api/stats.
MasterStatsResponse ==
    [active_workers |-> Cardinality(heartbeat),
     queue_size |-> Len(scraper_tasks),
     stats |-> stats]

\* self.workers of the pool whose statistics are read: the one SeleniumWorker
\* this section follows.
StatWorkers == {1}

\* sum(1 for w in self.workers if w.is_busy)
BusyWorkers == Cardinality({w \in StatWorkers : is_busy})

\* worker_pool_v3.py get_stats, lines 778-780: total_searches is summed.
GetStatsBegin ==
    /\ deployment = "pool"
    /\ stpc = "idle"
    /\ stpc' = "summing"
    /\ st_total' = total_searches
    /\ UNCHANGED <<pool_stats, dashboard>>
    /\ UNCHANGED <<deployment, now, callVars, redisVars, workerVars, poolVars, histVars>>
    /\ UNCHANGED <<askVars, clearVars, searchVars, leaseVars, stopVars, extraction, lost, tailVars>>

\* Lines 781-795: the other counters are summed and the dict returned.  The
\* workers do not take the pool's lock, so they may have moved on meanwhile.
GetStatsReturn ==
    /\ stpc = "summing"
    /\ stpc' = "idle"
    /\ pool_stats' = [total_workers |-> Cardinality(StatWorkers),
                      busy_workers |-> BusyWorkers,
                      available_workers |-> Cardinality(StatWorkers) - BusyWorkers,
                      total_searches |-> st_total,
                      successful_searches |-> successful_searches,
                      failed_searches |-> failed_searches,
                      success_rate |-> SuccessRate(successful_searches, st_total),
                      returned |-> TRUE]
    /\ UNCHANGED <<st_total, dashboard>>
    /\ UNCHANGED <<deployment, now, callVars, redisVars, workerVars, poolVars, histVars>>
    /\ UNCHANGED <<askVars, clearVars, searchVars, leaseVars, stopVars, extraction, lost, tailVars>>

\* cluster_monitor.py, get_cluster_stats and display_dashboard lines 98-118:
\* the rates are taken from the response's "performance" entry, 0 when absent.
MonitorRefresh ==
    /\ deployment = "cluster"
    /\ LET perf == Get(MasterStatsResponse, "performance", <<>>)
       IN  dashboard' = [success_rate |-> Value(Get(perf, "success_rate", 0)),
                         cache_hits |-> Get(perf, "cache_hits", 0),
                         cache_misses |-> Get(perf, "cache_misses", 0),
                         cache_rate |-> Value(Get(perf, "cache_hit_rate", 0)),
                         shown |-> TRUE]
    /\ UNCHANGED <<stpc, st_total, pool_stats>>
    /\ UNCHANGED <<deployment, now, callVars, redisVars, workerVars, poolVars, histVars>>
    /\ UNCHANGED <<askVars, clearVars, searchVars, leaseVars, stopVars, extraction, lost, tailVars>>

\* A pool worker searching while its pool's statistics are read; a cluster
\* whose monitor polls the master.
StatsInit ==
    /\ CoreInit
    /\ AskInit
    /\ ClearInit
    /\ LeaseInit
    /\ WorkerObjectInit /\ variant = "v3"
    /\ max_retries \in 0..MaxRetries
    /\ MoreInit

StatsNext ==
    \/ SearchCall
    \/ \E res \in {"ok"} \cup Reasons : SearchAttempt(res)
    \/ SearchExhausted
    \/ SearchDone
    \/ GetStatsBegin
    \/ GetStatsReturn
    \/ MonitorRefresh

StatsSpec == StatsInit /\ [][StatsNext]_vars

\* ============================================================== shutdown
\* The tasks that may be waiting or under way when the pool is stopped.
MaxStopTasks == 2

StopTask == [id |-> 1, query |-> <<"a">>, location |-> <<"b">>, limit |-> 1, call |-> 1]

\* The next worker a for loop over self.workers visits.
NextOf(ws) == CHOOSE w \in ws : \A v \in ws : w <= v

\* Everything but the shutdown variables, the two pool queues and current.
StopFrame ==
    /\ UNCHANGED <<deployment, now, callVars, redisVars, workerVars, workers, cache_memory,
                   histVars>>
    /\ UNCHANGED <<askVars, clearVars, searchVars, leaseVars, statVars, extraction, lost, tailVars>>

\* WorkerPool.submit_task, lines 759-762, while the pool runs.
StopSubmit ==
    /\ deployment = "pool"
    /\ stop_pc = "idle"
    /\ Len(task_queue) + Len(result_queue)
           + Cardinality({w \in Workers : current[w] # NoTask}) < MaxStopTasks
    /\ task_queue' = Append(task_queue, StopTask)
    /\ UNCHANGED <<result_queue, current, stopVars>>
    /\ StopFrame

\* _worker_loop line 731: while self.is_running.
ThreadTest(w) ==
    /\ deployment = "pool"
    /\ tpc[w] = "top"
    /\ tpc' = [tpc EXCEPT ![w] = IF is_running THEN "get" ELSE "exited"]
    /\ UNCHANGED <<is_running, driver, stop_pc, stop_left, sig_pc, stop_event, hb_pc, cdriver>>
    /\ UNCHANGED <<task_queue, result_queue, current>>
    /\ StopFrame

\* Lines 732-738: task_queue.get(timeout=1); queue.Empty sends the thread back
\* to the loop test, None out of the loop.
ThreadGet(w) ==
    /\ deployment = "pool"
    /\ tpc[w] = "get"
    /\ IF task_queue = <<>>
       THEN /\ tpc' = [tpc EXCEPT ![w] = "top"]
            /\ UNCHANGED <<task_queue, current>>
       ELSE /\ task_queue' = Tail(task_queue)
            /\ IF Head(task_queue) = NoTask
               THEN /\ tpc' = [tpc EXCEPT ![w] = "exited"]
                    /\ UNCHANGED current
               ELSE /\ tpc' = [tpc EXCEPT ![w] = "search"]
                    /\ current' = [current EXCEPT ![w] = Head(task_queue)]
    /\ UNCHANGED <<is_running, driver, stop_pc, stop_left, sig_pc, stop_event, hb_pc, cdriver>>
    /\ UNCHANGED result_queue
    /\ StopFrame

\* Lines 740-757: the search (an error when the browser has been closed under
\* it), the Result put on result_queue, then the delay.
ThreadSearch(w, ok) ==
    /\ deployment = "pool"
    /\ tpc[w] = "search"
    /\ driver[w] = "closed" => ~ok
    /\ result_queue' = Append(result_queue,
           [NoResult EXCEPT !.status = IF ok THEN "success" ELSE "error",
                            !.task_id = current[w].id, !.task = current[w].call,
                            !.at = now, !.limit = current[w].limit])
    /\ current' = [current EXCEPT ![w] = NoTask]
    /\ tpc' = [tpc EXCEPT ![w] = "sleep"]
    /\ UNCHANGED <<is_running, driver, stop_pc, stop_left, sig_pc, stop_event, hb_pc, cdriver>>
    /\ UNCHANGED task_queue
    /\ StopFrame

\* Line 757: time.sleep(delay) ends.
ThreadWake(w) ==
    /\ deployment = "pool"
    /\ tpc[w] = "sleep"
    /\ tpc' = [tpc EXCEPT ![w] = "top"]
    /\ UNCHANGED <<is_running, driver, stop_pc, stop_left, sig_pc, stop_event, hb_pc, cdriver>>
    /\ UNCHANGED <<task_queue, result_queue, current>>
    /\ StopFrame

\* WorkerPool.stop, lines 798-799: self.is_running = False.
StopBegin ==
    /\ deployment = "pool"
    /\ stop_pc = "idle"
    /\ is_running' = FALSE
    /\ stop_pc' = "sentinels"
    /\ stop_left' = workers
    /\ UNCHANGED <<tpc, driver, sig_pc, stop_event, hb_pc, cdriver>>
    /\ UNCHANGED <<task_queue, result_queue, current>>
    /\ StopFrame

\* Lines 800-801: for _ in self.workers: self.task_queue.put(None).
StopSentinel ==
    /\ stop_pc = "sentinels"
    /\ IF stop_left = {}
       THEN /\ stop_pc' = "close"
            /\ stop_left' = workers
            /\ UNCHANGED task_queue
       ELSE /\ task_queue' = Append(task_queue, NoTask)
            /\ stop_left' = stop_left \ {NextOf(stop_left)}
            /\ UNCHANGED stop_pc
    /\ UNCHANGED <<is_running, tpc, driver, sig_pc, stop_event, hb_pc, cdriver>>
    /\ UNCHANGED <<result_queue, current>>
    /\ StopFrame

\* A close that forgets the browser.
CloseKeepsOpen(state) == state

\* SeleniumWorker.close, lines 662-668: self.driver.quit().
Close(state) == "closed"

\* Lines 802-806: for w in self.workers: w.close().
StopClose ==
    /\ stop_pc = "close"
    /\ IF stop_left = {}
       THEN /\ stop_pc' = "join"
            /\ stop_left' = workers
            /\ UNCHANGED driver
       ELSE /\ driver' = [driver EXCEPT ![NextOf(stop_left)] = Close(@)]
            /\ stop_left' = stop_left \ {NextOf(stop_left)}
            /\ UNCHANGED stop_pc
    /\ UNCHANGED <<is_running, tpc, sig_pc, stop_event, hb_pc, cdriver>>
    /\ UNCHANGED <<task_queue, result_queue, current>>
    /\ StopFrame

\* Lines 807-812: for t in self._threads: t.join(timeout=3.0); the join returns
\* when the thread has ended or the 3 s are over.
StopJoin ==
    /\ stop_pc = "join"
    /\ IF stop_left = {}
       THEN /\ stop_pc' = "done"
            /\ UNCHANGED stop_left
       ELSE /\ stop_left' = stop_left \ {NextOf(stop_left)}
            /\ UNCHANGED stop_pc
    /\ UNCHANGED <<is_running, tpc, driver, sig_pc, stop_event, hb_pc, cdriver>>
    /\ UNCHANGED <<task_queue, result_queue, current>>
    /\ StopFrame

\* cluster_worker.py heartbeat_loop, lines 475-481, one step at a time.
HbStep ==
    /\ deployment = "cluster"
    /\ sig_pc # "exited"
    /\ \/ hb_pc = "test" /\ hb_pc' = (IF stop_event THEN "ended" ELSE "setex")
       \/ hb_pc = "setex" /\ hb_pc' = "wait"
       \/ hb_pc = "wait" /\ hb_pc' = "test"
    /\ UNCHANGED <<is_running, tpc, driver, stop_pc, stop_left, sig_pc, stop_event, cdriver>>
    /\ UNCHANGED <<task_queue, result_queue, current>>
    /\ StopFrame

\* SIGTERM or SIGINT arrives: _graceful_exit starts, line 564 stop_event.set().
SignalSet ==
    /\ deployment = "cluster"
    /\ sig_pc = "loop"
    /\ sig_pc' = "set"
    /\ stop_event' = TRUE
    /\ UNCHANGED <<is_running, tpc, driver, stop_pc, stop_left, hb_pc, cdriver>>
    /\ UNCHANGED <<task_queue, result_queue, current>>
    /\ StopFrame

\* _graceful_exit lines 567-571: driver.quit().
SignalQuit ==
    /\ sig_pc = "set"
    /\ sig_pc' = "quit"
    /\ cdriver' = Close(cdriver)
    /\ UNCHANGED <<is_running, tpc, driver, stop_pc, stop_left, stop_event, hb_pc>>
    /\ UNCHANGED <<task_queue, result_queue, current>>
    /\ StopFrame

\* _graceful_exit line 572: sys.exit(0).  SystemExit is no Exception: the
\* loop's except clauses let it through, the process ends and its daemon
\* heartbeat thread with it.
SignalExit ==
    /\ sig_pc = "quit"
    /\ sig_pc' = "exited"
    /\ hb_pc' = "ended"
    /\ UNCHANGED <<is_running, tpc, driver, stop_pc, stop_left, stop_event, cdriver>>
    /\ UNCHANGED <<task_queue, result_queue, current>>
    /\ StopFrame

StopNext ==
    \/ StopSubmit
    \/ \E w \in workers : ThreadTest(w)
    \/ \E w \in workers : ThreadGet(w)
    \/ \E w \in workers, ok \in BOOLEAN : ThreadSearch(w, ok)
    \/ \E w \in workers : ThreadWake(w)
    \/ StopBegin
    \/ StopSentinel
    \/ StopClose
    \/ StopJoin
    \/ HbStep
    \/ SignalSet
    \/ SignalQuit
    \/ SignalExit

\* Every thread that can take a step eventually takes it: the worker threads,
\* the thread running stop, the heartbeat thread, the signal handler.  Whether
\* stop is called or a signal arrives is left open.
StopFairness ==
    /\ \A w \in Workers : WF_vars(ThreadTest(w))
    /\ \A w \in Workers : WF_vars(ThreadGet(w))
    /\ \A w \in Workers : WF_vars(\E ok \in BOOLEAN : ThreadSearch(w, ok))
    /\ \A w \in Workers : WF_vars(ThreadWake(w))
    /\ WF_vars(StopSentinel) /\ WF_vars(StopClose) /\ WF_vars(StopJoin)
    /\ WF_vars(HbStep) /\ WF_vars(SignalQuit) /\ WF_vars(SignalExit)

StopSpec == Init /\ [][StopNext]_vars /\ StopFairness

\* ============================================================ extraction
\* The longest list of anchors a page gives, and the largest limit asked for.
MaxAnchors == 3
MaxPlaces == 2
\* The tasks one worker extracts places for.
MaxExtractions == 2

\* The aria-label of an anchor (the title of a card): "" when there is none.
Titles == {"", "x", "y"}

SeqsUpTo(S, n) == UNION {[1..k -> S] : k \in 0..n}

AnchorLists == SeqsUpTo(Titles, MaxAnchors)
FallbackLists == {<<>>, <<"">>, <<"x", "", "y">>}
ExtractLimits == -1..MaxPlaces

\* A position counter that moves on for every anchor visited.
NextPosAlways(pos, kept) == pos + 1

\* pos += 1 only after results.append(item).
NextPos(pos, kept) == IF kept THEN pos + 1 ELSE pos

\* worker_pool_v3.py lines 441-452 (481-487, 381-388): the loop over the
\* anchors from position pos on; an anchor without a title gives no item.
RECURSIVE ExtractFrom(_, _, _)
ExtractFrom(anchors, pos, limit) ==
    IF anchors = <<>> \/ pos > limit THEN <<>>
    ELSE LET kept == Head(anchors) # ""
         IN  (IF kept THEN <<[position |-> pos, title |-> Head(anchors)]>> ELSE <<>>)
                 \o ExtractFrom(Tail(anchors), NextPos(pos, kept), limit)

\* Python's s[:n].
SliceTo(seq, n) ==
    IF n >= 0 THEN SubSeq(seq, 1, Min(n, Len(seq)))
    ELSE SubSeq(seq, 1, Max(Len(seq) + n, 0))

\* _perform_search lines 349-405: the local vertical, else the SERP, else Maps;
\* then places[:limit].
PoolPlaces(lcl, serp, maps, limit) ==
    LET first == ExtractFrom(lcl, 1, limit)
        second == IF first # <<>> THEN first ELSE ExtractFrom(serp, 1, limit)
        third == IF second # <<>> THEN second ELSE ExtractFrom(maps, 1, limit)
    IN  SliceTo(third, limit)

PoolPath(lcl, serp, limit) ==
    IF ExtractFrom(lcl, 1, limit) # <<>> THEN "lcl"
    ELSE IF ExtractFrom(serp, 1, limit) # <<>> THEN "serp" ELSE "maps"

\* cluster_worker.py lines 408-417: one pass over the cards now in the DOM.
RECURSIVE CollectFrom(_, _, _)
CollectFrom(cards, collected, limit) ==
    IF cards = <<>> THEN collected
    ELSE IF Head(cards) = "" \/ \E i \in 1..Len(collected) : collected[i] = Head(cards)
    THEN CollectFrom(Tail(cards), collected, limit)
    ELSE LET more == Append(collected, Head(cards))
         IN  IF Len(more) >= limit THEN more ELSE CollectFrom(Tail(cards), more, limit)

\* Lines 405-429: the DOM is read again after every scroll, while fewer than
\* limit cards are collected and there are scrolls left.
RECURSIVE Collect(_, _, _)
Collect(doms, collected, limit) ==
    IF doms = <<>> \/ ~(Len(collected) < limit) THEN collected
    ELSE Collect(Tail(doms), CollectFrom(Head(doms), collected, limit), limit)

\* Lines 438-445: enumerate(collected[:limit], start=1).
ClusterPlaces(doms, limit) ==
    LET kept == SliceTo(Collect(doms, <<>>, limit), limit)
    IN  [i \in 1..Len(kept) |-> [position |-> i, title |-> kept[i]]]

ExtractFrame ==
    /\ UNCHANGED <<deployment, now, callVars, redisVars, workerVars, poolVars, histVars>>
    /\ UNCHANGED <<askVars, clearVars, searchVars, leaseVars, statVars, stopVars, lost, tailVars>>

\* A pool worker's _perform_search returns its success dict.
PoolExtract(lcl, serp, maps, limit) ==
    /\ deployment = "pool"
    /\ ~extraction.done
    /\ extraction.served < MaxExtractions
    /\ extraction' = [path |-> PoolPath(lcl, serp, limit), limit |-> limit,
                      anchors |-> <<lcl, serp, maps>>,
                      places |-> PoolPlaces(lcl, serp, maps, limit), done |-> TRUE,
                      served |-> extraction.served]
    /\ ExtractFrame

\* A cluster worker's google_local_search returns its success dict.
ClusterExtract(doms, limit) ==
    /\ deployment = "cluster"
    /\ ~extraction.done
    /\ extraction.served < MaxExtractions
    /\ extraction' = [path |-> "cluster", limit |-> limit, anchors |-> doms,
                      places |-> ClusterPlaces(doms, limit), done |-> TRUE,
                      served |-> extraction.served]
    /\ ExtractFrame

\* The worker goes on to its next task.
ExtractNext ==
    /\ extraction.done
    /\ extraction' = [NoExtraction EXCEPT !.served = extraction.served + 1]
    /\ ExtractFrame

PositionsNext ==
    \/ \E lcl \in AnchorLists, serp \in FallbackLists, maps \in FallbackLists,
          limit \in ExtractLimits : PoolExtract(lcl, serp, maps, limit)
    \/ \E d1 \in AnchorLists, d2 \in FallbackLists, limit \in ExtractLimits :
          ClusterExtract(<<d1, d2>>, limit)
    \/ ExtractNext

PositionsSpec == Init /\ [][PositionsNext]_vars

\* ================================================ a worker process dies
\* cluster_worker.py main 577-616: the process is killed, or SIGTERM/SIGINT runs
\* _graceful_exit (562-572), whose sys.exit(0) the loop's except Exception does
\* not catch.  The Task popped by BRPOP was only in the process's memory; the
\* heartbeat key is no longer refreshed and expires.
WorkerCrash(w) ==
    /\ deployment = "cluster"
    /\ wpc[w] # "off"
    /\ lost' = IF wpc[w] = "busy" THEN lost \cup {wtask[w].call} ELSE lost
    /\ wpc' = [wpc EXCEPT ![w] = "off"]
    /\ wtask' = [wtask EXCEPT ![w] = NoTask]
    /\ heartbeat' = heartbeat \ {w}
    /\ UNCHANGED <<deployment, now, callVars, scraper_tasks, scraper_result,
                   redis_cache, stats, poolVars, histVars>>
    /\ UNCHANGED <<askVars, clearVars, searchVars, leaseVars, statVars, stopVars,
                   extraction, tailVars>>

CrashNext ==
    \/ Next
    \/ \E w \in Workers : WorkerCrash(w)

CrashSpec == Init /\ [][CrashNext]_vars

\* ============================================= callers that poll in time
\* A Result that call c is waiting for is there to be read: under c's key in
\* Redis, or on result_queue or in the hands of a get_result that will put it
\* back.
Awaited(c) ==
    IF deployment = "cluster"
    THEN Live(scraper_result, tid[c])
    ELSE \/ \E i \in 1..Len(result_queue) : Matches(tid[c], result_queue[i])
         \/ \E d \in Calls : pc[d] = "check" /\ Matches(tid[c], held[d])

\* The waiting loops go round faster than the clock: cluster_master polls every
\* second of its 120 s, get_result blocks at most 0.5 s of its 120 s.  Time does
\* not pass over a Result a waiting call has still to pick up, nor between
\* get_result's take of an item and the test and put that follow it.
TimelyTick ==
    /\ \A c \in Calls : pc[c] = "wait" => ~Awaited(c)
    /\ \A c \in Calls : pc[c] # "check"
    /\ Tick

WaitNext ==
    \/ TimelyTick
    \/ \E c \in Calls, r \in Requests : Arrive(c, r)
    \/ \E c \in Calls : MasterSearch(c)
    \/ \E c \in Calls : MasterGet(c)
    \/ \E c \in Calls : MasterConsume(c)
    \/ \E c \in Calls : MasterTimeout(c)
    \/ \E w \in Workers : WorkerStart(w)
    \/ \E w \in Workers : WorkerBrpop(w)
    \/ \E w \in Workers, ok \in BOOLEAN : WorkerPublish(w, ok, OnePage)
    \/ \E w \in Workers : WorkerPublishFail(w)
    \/ \E c \in Calls : ApiSearch(c)
    \/ \E c \in Calls : GetResultTake(c)
    \/ \E c \in Calls : GetResultRequeue(c)
    \/ \E c \in Calls : GetResultReturn(c)
    \/ \E c \in Calls : ApiTimeout(c)
    \/ \E w \in Workers : PoolGet(w)
    \/ \E w \in Workers, ok \in BOOLEAN : PoolPut(w, ok, OnePage)

WaitSpec == Init /\ [][WaitNext]_vars

\* A step of some Executor's loop.
ExecutorStep ==
    \E w \in Workers :
        \/ WorkerBrpop(w)
        \/ WorkerPublishFail(w)
        \/ \E ok \in BOOLEAN : WorkerPublish(w, ok, OnePage)
        \/ PoolGet(w)
        \/ \E ok \in BOOLEAN : PoolPut(w, ok, OnePage)

\* The Executor loops keep running: while some Executor can pop or publish, one
\* of them eventually does.
Fairness == WF_vars(ExecutorStep)

FairSpec == Spec /\ Fairness

\* ============================================================== properties
\* The WorkQueue and the ResultStore of the deployment that runs.
WorkQueue == IF deployment = "cluster" THEN scraper_tasks ELSE task_queue

StoredResults ==
    IF deployment = "cluster"
    THEN {scraper_result[k] : k \in DOMAIN scraper_result}
    ELSE {result_queue[i] : i \in 1..Len(result_queue)}
         \cup {held[c] : c \in {d \in Calls : pc[d] = "check"}}

QueuedCount(c) == Cardinality({i \in 1..Len(WorkQueue) : WorkQueue[i].call = c})

Holders(c) == {w \in Workers : wtask[w].call = c \/ current[w].call = c}

Submitted(c) == tid[c] # NoId

\* Executors registered/active: live heartbeat keys; initialised pool workers.
NoExecutor == IF deployment = "cluster" THEN heartbeat = {} ELSE workers = {}

\* Every enqueued Task is in the queue or has been dequeued once, never both,
\* never twice, and at most one Executor holds it.
ClaimedAtMostOnce ==
    \A c \in Calls :
        /\ claimed[c] <= 1
        /\ Cardinality(Holders(c)) <= 1
        /\ QueuedCount(c) + claimed[c] = (IF Submitted(c) THEN 1 ELSE 0)
        /\ Holders(c) # {} => claimed[c] = 1

\* C1: in the Redis list and in the in-process queue alike, every enqueued Task
\* is dequeued by exactly one Executor: never by two, and, while some Executor
\* is running and the Executor loops keep polling, never by none.
C1_ExactlyOneClaim ==
    /\ []ClaimedAtMostOnce
    /\ \A c \in Calls : (QueuedCount(c) > 0 /\ ~NoExecutor) ~> (claimed[c] = 1)

\* Two Tasks, each dequeued once and held by a different Executor at once.
C1_Witness ==
    \E c, d \in Calls :
        /\ c # d /\ claimed[c] = 1 /\ claimed[d] = 1
        /\ Holders(c) # {} /\ Holders(d) # {} /\ Holders(c) # Holders(d)

\* C2: get_result(task_id = X) hands its caller only the Result tagged X: every
\* call of the pool gateway that got a Result got the one of its own Task.
C2_ResultMatchesCaller ==
    deployment = "pool" =>
        /\ \A c \in Calls :
               outcome[c].kind \in {"success", "error"} =>
                   outcome[c].task_id = tid[c] /\ outcome[c].task = c
        /\ \A d \in delivered : d.task = d.to

\* A caller got its Result after another caller had read it and put it back.
C2_Witness ==
    \E c, d \in Calls :
        /\ deployment = "pool" /\ c # d
        /\ \E e \in requeued : e.task = c /\ e.by = d
        /\ outcome[c].kind = "success"

\* C3: at most one Result is ever published per Task id, and a published Result
\* is returned to at most one dispatch call.
C3_OneResultOneCaller ==
    /\ \A p, q \in published : p.task_id = q.task_id => p.task = q.task
    /\ \A d, e \in delivered : d.task = e.task => d.to = e.to

\* The Task of call c is queued, in progress or has an unconsumed Result.
LiveTask(c) ==
    QueuedCount(c) > 0 \/ Holders(c) # {} \/ \E r \in StoredResults : r.task = c

\* C4: a Task's id differs from the id of every other Task that is queued, in
\* progress or has an unconsumed Result.
C4_IdsDistinct ==
    \A c, d \in Calls : (c # d /\ LiveTask(c) /\ LiveTask(d)) => tid[c] # tid[d]

\* C5: every Task an Executor dequeued and is done with has a published Result
\* under the Task's id.
C5_NoSilentDrop ==
    \A c \in finished : [task_id |-> tid[c], task |-> c] \in published

\* C6: a call that returns Timeout returns it with the elapsed time, which is
\* no less than the configured bound.
C6_TimeoutCarriesElapsed ==
    \A c \in Calls :
        outcome[c].kind = "timeout" =>
            outcome[c].elapsed # NoElapsed /\ outcome[c].elapsed >= TimeoutTicks

\* C6, the part about time alone: no call returns Timeout before its deadline,
\* and past the deadline a waiting call reads no further Result.
TimeoutNotEarly ==
    [][\A c \in Calls :
          /\ (outcome'[c].kind = "timeout" /\ outcome[c].kind # "timeout")
                 => now - start[c] >= TimeoutTicks
          /\ (pc[c] = "wait" /\ now - start[c] >= TimeoutTicks)
                 => pc'[c] \in {"wait", "done"}]_vars

\* C7: a Result published after its caller returned Timeout is delivered to no
\* call and is gone from the ResultStore once its TTL has passed.
C7_LateResultDiscarded ==
    /\ \A d \in delivered : ~d.late
    /\ \A r \in StoredResults : r.late => now < r.at + ResultTTL

\* C8: a dispatch (valid, not answered from the cache) issued while no Executor
\* is registered/active returns NoExecutorAvailable and leaves the WorkQueue as
\* it was.
C8_NoExecutorNoEnqueue ==
    [][NoExecutor =>
          \A c \in Calls :
              (/\ pc[c] = "recv" /\ pc'[c] # "recv"
               /\ outcome'[c].kind \notin {"validation", "cached", "unhandled"})
                  => (outcome'[c].kind = "noexec" /\ WorkQueue' = WorkQueue)]_vars

\* C9: a dispatch whose query or location is missing or empty returns a
\* ValidationError and changes no queue, cache or counter.
C9_ValidationErrorNoChange ==
    [][\A c \in Calls :
          (/\ pc[c] = "recv" /\ pc'[c] # "recv"
           /\ (req[c].query = <<>> \/ req[c].location = <<>>))
              => /\ outcome'[c].kind = "validation"
                 /\ UNCHANGED <<scraper_tasks, task_queue, redis_cache, cache_memory,
                                stats>>]_vars

\* The frame half of C9 on its own: such a dispatch changes nothing.
C9_NoChange ==
    [][\A c \in Calls :
          (/\ pc[c] = "recv" /\ pc'[c] # "recv"
           /\ (req[c].query = <<>> \/ req[c].location = <<>>))
              => UNCHANGED <<scraper_tasks, task_queue, redis_cache, cache_memory,
                             stats>>]_vars

\* The request passes the gateway's validation (step 1 of dispatch).
Validated(r) ==
    IF deployment = "cluster"
    THEN r.query # <<>> /\ r.location # <<>>
    ELSE Strip(r.query) # <<>> /\ Strip(r.location) # <<>> /\ IsNumeric(r.limit)

\* The cache holds an entry under the request's fingerprint.
CacheHolds(r) ==
    IF deployment = "cluster"
    THEN Live(redis_cache, generate_cache_key(r.query, r.location, normalize_limit(r.limit)))
    ELSE get_cache_key(Strip(r.query), Strip(r.location)) \in DOMAIN cache_memory

CachedValue(r) ==
    IF deployment = "cluster"
    THEN redis_cache[generate_cache_key(r.query, r.location, normalize_limit(r.limit))].value
    ELSE cache_memory[get_cache_key(Strip(r.query), Strip(r.location))]

C11_NoCacheWhenDisabled ==
    [][\A c \in Calls :
          (/\ pc[c] = "recv" /\ pc'[c] # "recv"
           /\ Validated(req[c]) /\ ~req[c].use_cache)
              => /\ outcome'[c].kind # "cached"
                 /\ ~outcome'[c].from_cache
                 /\ outcome'[c].kind # "noexec"
                        => /\ pc'[c] = "wait"
                           /\ Len(WorkQueue') = Len(WorkQueue) + 1]_vars

\* The entries of the ResultCache of the deployment that runs.
CacheEntries ==
    IF deployment = "cluster"
    THEN {redis_cache[k].value : k \in DOMAIN redis_cache}
    ELSE {cache_memory[k] : k \in DOMAIN cache_memory}

\* C12: every cache entry holds a Success Result, one that a dispatch call
\* obtained and returned as a Success: no Error Result, Timeout or validation
\* failure has created or overwritten an entry.
C12_CacheHoldsOnlySuccess ==
    \A v \in CacheEntries :
        /\ v.status = "success"
        /\ \E c \in Calls :
               /\ outcome[c].kind = "success" /\ ~outcome[c].from_cache
               /\ outcome[c].task = v.task /\ outcome[c].payload = v.payload

\* One call returned an Error Result or a Timeout, the other a Success, and the
\* cache holds an entry.
C12_Witness ==
    \E c, d \in Calls :
        /\ outcome[c].kind \in {"error", "timeout"}
        /\ outcome[d].kind = "success"
        /\ CacheEntries # {}

\* ------------------------------------------------------- the cache's claims
\* The limit the gateway takes from a request that passed its validation.
RequestLimit(r) ==
    IF deployment = "cluster" THEN normalize_limit(r.limit) ELSE ParseInt(r.limit)

\* The key under which the gateway looks a request up and stores its Result.
Fingerprint(r) ==
    IF deployment = "cluster"
    THEN generate_cache_key(r.query, r.location, normalize_limit(r.limit))
    ELSE get_cache_key(Strip(r.query), Strip(r.location))

\* C13: requests that differ only in limit have different fingerprints, so a
\* call answered from the cache gets a Result that was produced for its own limit.
C13_LimitInFingerprint ==
    [][\A c \in Calls :
          (pc[c] = "recv" /\ outcome'[c].kind = "cached")
              => /\ CachedValue(req[c]).limit = RequestLimit(req[c])
                 /\ \A r \in CacheRequests :
                        (/\ r.query = req[c].query /\ r.location = req[c].location
                         /\ RequestLimit(r) # RequestLimit(req[c]))
                            => Fingerprint(r) # Fingerprint(req[c])]_vars

\* Trimmed and in lower case.
Normalized(text) == Strip(Lower(text))

SameNormalized(r1, r2) ==
    /\ Normalized(r1.query) = Normalized(r2.query)
    /\ Normalized(r1.location) = Normalized(r2.location)
    /\ RequestLimit(r1) = RequestLimit(r2)

\* C14: requests that differ only in letter case or in leading/trailing blanks
\* of query or location have one fingerprint: while the cache holds the Result
\* of a dispatch, it holds it for every such request.
C14_NormalizedFingerprint ==
    \A c \in Calls : \A r \in CacheRequests :
        (asked[c] # NoReq /\ CacheHolds(asked[c]) /\ SameNormalized(r, asked[c]))
            => /\ Fingerprint(r) = Fingerprint(asked[c])
               /\ CacheHolds(r)
               /\ CachedValue(r) = CachedValue(asked[c])

\* The entry the dispatch of call c stored is within its TTL.
WithinTTL(c) == \E d \in delivered : d.to = c /\ now < d.at + CacheTTL

\* C15: a dispatch that returns Success returns the n <= limit records the
\* collaborator returned for its Task, in their order; the identical dispatch
\* that follows it (use_cache set, within the TTL, the cache not cleared) returns
\* the same records tagged from_cache, enqueues no Task and has no collaborator
\* call made for it.
C15_PayloadKeptAndCached ==
    /\ [](\A c \in Calls :
             /\ outcome[c].kind = "success"
                    => /\ outcome[c].payload = produced[c]
                       /\ Len(outcome[c].payload) <= RequestLimit(asked[c])
             /\ outcome[c].kind = "cached"
                    => tid[c] = NoId /\ claimed[c] = 0 /\ produced[c] = NoRecords)
    /\ [][\A c, d \in Calls :
            (/\ d = c + 1
             /\ outcome[c].kind = "success"
             /\ pc[d] = "recv" /\ pc'[d] # "recv"
             /\ req[d] = asked[c] /\ req[d].use_cache
             /\ WithinTTL(c) /\ cpc = "idle")
                => /\ outcome'[d].kind = "cached"
                   /\ outcome'[d].from_cache
                   /\ outcome'[d].payload = outcome[c].payload
                   /\ WorkQueue' = WorkQueue
                   /\ UNCHANGED <<produced, claimed>>]_vars

\* The second of two identical dispatches was answered from the cache with the
\* records the first had returned: the first limit records of a longer page.
C15_Witness ==
    \E c, d \in Calls :
        /\ d = c + 1 /\ asked[d] = asked[c]
        /\ outcome[c].kind = "success" /\ outcome[d].kind = "cached"
        /\ outcome[d].payload = outcome[c].payload
        /\ Len(outcome[c].payload) = RequestLimit(asked[c])
        /\ Len(outcome[c].payload) > 1

\* C16: a lookup returns an entry only within the TTL of its insertion and
\* only if no clear() that found it has returned since; clear() reports the
\* number of entries it removed.
C16_EntryServedUntilExpiryOrClear ==
    /\ [](cpc = "done" => deleted = removed)
    /\ [][\A c \in Calls :
            (pc[c] = "recv" /\ outcome'[c].kind = "cached")
                => /\ \E d \in delivered :
                          d.task = CachedValue(req[c]).task /\ now < d.at + CacheTTL
                   /\ cpc = "done"
                          => [key |-> Fingerprint(req[c]),
                              exp |-> redis_cache[Fingerprint(req[c])].exp]
                                 \notin before_clear]_vars


\* ------------------------------------------------------------------ C17
\* The attempts of the search in hand that failed are all of them.
AllFailed(outcomes) == \A i \in 1..Len(outcomes) : outcomes[i] \in Reasons

\* C17: called with max_retries = k >= 1, search calls _perform_search at most
\* k times; a success is the last call made and search returns it at once; an
\* error comes back only after k failed calls and carries the reason of the
\* last one.  With k = 2 that is exactly 2 calls, never a third.
C17_AtMostKAttempts ==
    max_retries >= 1 =>
        /\ Len(tries) <= max_retries
        /\ \A i \in 1..Len(tries) :
               tries[i] = "ok" =>
                   i = Len(tries) /\ spc \in {"returned", "idle"} /\ sret.status = "success"
        /\ sret.status = "success" => tries # <<>> /\ tries[Len(tries)] = "ok"
        /\ (spc = "returned" /\ sret.status # "success") =>
               /\ sret.status = "error"
               /\ Len(tries) = max_retries
               /\ AllFailed(tries)
               /\ sret.error = tries[Len(tries)]

\* Two attempts failed for different reasons and the error names the second.
C17_Witness ==
    /\ max_retries = 2
    /\ spc = "returned"
    /\ tries = <<"e1", "e2">>
    /\ sret = [status |-> "error", error |-> "e2"]

\* ------------------------------------------------------------------ C18
\* C18 as stated: after a first search with max_retries = 2 whose two attempts
\* both failed, failed is 2.
C18_FailedIsTwo ==
    (max_retries = 2 /\ total_searches = 1 /\ spc = "returned" /\ Len(tries) = 2
        /\ AllFailed(tries))
        => failed_searches = 2

\* C18 amended: failed_searches counts failed searches, not failed attempts.  It
\* moves only when a search returns an error, and then by exactly 1; after a
\* first search with max_retries = 2 whose two attempts both failed it is 1.
C18_FailedCountsSearches ==
    /\ [][failed_searches' # failed_searches =>
              /\ failed_searches' = failed_searches + 1
              /\ spc = "loop" /\ spc' = "returned" /\ sret'.status = "error"]_vars
    /\ []((max_retries = 2 /\ spc = "returned" /\ sret.status = "error") =>
              /\ Len(tries) = 2 /\ AllFailed(tries)
              /\ total_searches = 1 => failed_searches = 1)

\* The first search made two attempts, both failed, and failed is 1.
C18_Witness ==
    /\ max_retries = 2 /\ total_searches = 1 /\ spc = "returned"
    /\ Len(tries) = 2 /\ AllFailed(tries)
    /\ failed_searches = 1

\* ------------------------------------------------------------------ C19
\* C19: busy holds exactly while a search is in progress; at rest total is
\* succeeded + failed; total moves by 1, and only when a search is called; the
\* other two never go down.  For every max_retries >= 0 and both versions.
C19_CountersPerSearch ==
    /\ [](is_busy <=> spc = "loop")
    /\ [](spc # "loop" => total_searches = successful_searches + failed_searches)
    /\ [][/\ total_searches' # total_searches =>
                 (total_searches' = total_searches + 1 /\ spc = "idle" /\ spc' = "loop")
          /\ successful_searches' >= successful_searches
          /\ failed_searches' >= failed_searches]_vars


\* ------------------------------------------------------------------ C20
\* The worker has had a heartbeat.
Heartbeated(w) == lease[w] > 0

\* C20: get_workers lists a worker as active exactly when its heartbeat key
\* still has time to live at the moment it is looked at: not once
\* HeartbeatTTL has passed since the last SETEX that succeeded (whatever became
\* of the process), again after the next one, and always for a worker that,
\* since its first heartbeat, has refreshed at every interval.
C20_ActiveWhileLeased ==
    [][\A w \in LeaseWorkers :
          /\ (gpc = "idle" /\ gpc' = "listing") =>
                 /\ w \in scanned' <=> LeaseLive(w)
                 /\ (steady[w] /\ Heartbeated(w)) => w \in scanned'
          /\ (w \in scanned /\ w \notin scanned') =>
                 /\ seen'[w] <=> LeaseLive(w)
                 /\ (Heartbeated(w) /\ now >= hlast[w] + HeartbeatTTL) => ~seen'[w]
                 /\ (Heartbeated(w) /\ now < hlast[w] + HeartbeatTTL) => seen'[w]
                 /\ (steady[w] /\ Heartbeated(w)) => seen'[w]
          /\ (w \notin scanned /\ gpc' = "listing" /\ gpc = "listing") => seen'[w] = seen[w]]_vars

\* One listing in which a stopped worker whose lease has run out is found
\* inactive and a worker that is up and has refreshed is found active.
C20_Witness ==
    /\ gpc = "listing" /\ scanned = {}
    /\ hstate[1] = "dead" /\ Heartbeated(1) /\ now >= hlast[1] + HeartbeatTTL /\ ~seen[1]
    /\ hstate[2] = "up" /\ Heartbeated(2) /\ seen[2]


\* ------------------------------------------------------------------ C21
\* C21: no rate is ever the result of a division by zero.  The pool's
\* success_rate is 0 when the total it read is 0 and otherwise successful/total
\* in percent, to the hundredth; the monitor's rates are 0 whenever the master
\* reports nothing to divide by.
C21_RatesNeverDivideByZero ==
    /\ pool_stats.returned =>
           /\ ~pool_stats.success_rate.raised
           /\ pool_stats.total_searches = 0 => pool_stats.success_rate.value = 0
           /\ pool_stats.total_searches > 0 =>
                  2 * Abs(pool_stats.success_rate.value * pool_stats.total_searches
                          - pool_stats.successful_searches * 10000)
                      <= pool_stats.total_searches
    /\ dashboard.shown =>
           /\ ~dashboard.success_rate.raised /\ ~dashboard.cache_rate.raised
           /\ dashboard.cache_hits + dashboard.cache_misses = 0
                  => dashboard.cache_rate.value = 0

\* The statistics were read after one search of two had succeeded (a rate of
\* 50.00), or before any search at all while one was being counted.
C21_Witness ==
    /\ pool_stats.returned
    /\ \/ pool_stats.total_searches = 2 /\ pool_stats.successful_searches = 1
          /\ pool_stats.success_rate = Value(5000)
       \/ pool_stats.total_searches = 0 /\ pool_stats.successful_searches = 1


\* ------------------------------------------------------------------ C22
\* C22: whatever fails below the gateway, the caller's response is a tagged
\* outcome; no exception leaves the dispatch handler unhandled.
C22_NoUnhandledFault ==
    \A c \in Calls : pc[c] = "done" => outcome[c].kind # "unhandled"


C24_PositionsConsecutive ==
    extraction.done =>
        /\ Len(extraction.places) <= Max(extraction.limit, 0)
        /\ \A i \in 1..Len(extraction.places) : extraction.places[i].position = i

\* The SERP fallback returned two places, the second found after an anchor
\* without a title.
C24_Witness ==
    /\ extraction.done /\ extraction.path = "serp" /\ extraction.limit = 2
    /\ extraction.places = <<[position |-> 1, title |-> "x"], [position |-> 2, title |-> "y"]>>


\* ------------------------------------------------------------------ C25
\* C25: a store failure at runtime ends no loop of a cluster worker, and the
\* operation that failed is tried again: a worker lets go of a Task only once
\* the Task's Result is published.
C25_StoreFailureRetried ==
    [][\A w \in Workers :
          /\ wpc[w] # "off" => wpc'[w] # "off"
          /\ (wpc[w] = "busy" /\ wpc'[w] # "busy") =>
                 [task_id |-> wtask[w].id, task |-> wtask[w].call] \in published']_vars


\* ------------------------------------------------------------------ C26
\* The Result of call c's Task was published before time t: it is still stored
\* with that date, or it was handed to some call by then.
PublishedBefore(c, t) ==
    \/ \E r \in StoredResults : r.task = c /\ r.at < t
    \/ \E d \in delivered : d.task = c /\ d.at < t

\* C26: a call whose Task's Result was published before the call's deadline
\* gets that Result and does not return Timeout, whatever the other callers that
\* poll and re-queue at the same time are doing.
C26_PublishedInTimeIsReceived ==
    \A c \in Calls :
        outcome[c].kind = "timeout" => ~PublishedBefore(c, start[c] + TimeoutTicks)


\* ------------------------------------------------------------------ C27
\* The undelivered Results of Task t in the pool: those on result_queue and
\* those a get_result has taken and not yet returned or put back.
Undelivered(t) ==
    Cardinality({i \in 1..Len(result_queue) : result_queue[i].task = t})
    + Cardinality({c \in Calls : pc[c] = "check" /\ held[c].task = t})

\* C27: get_result always puts a Result that is not the awaited one back on
\* result_queue; in every interleaving of concurrent get_result calls the
\* undelivered Results change only by an Executor's put (one more) or by a take
\* with a matching id that is returned to its caller (one less).
C27_RequeueLosesNothing ==
    [][deployment = "pool" =>
         \A t \in Calls :
            \/ Undelivered(t)' = Undelivered(t)
            \/ /\ Undelivered(t)' = Undelivered(t) + 1
               /\ \E w \in Workers : current[w].call = t /\ current'[w].call # t
            \/ /\ Undelivered(t)' = Undelivered(t) - 1
               /\ \E c \in Calls : /\ pc[c] = "check" /\ pc'[c] = "done"
                                   /\ held[c].task = t
                                   /\ Matches(tid[c], held[c])]_vars

\* A Result was taken by a caller it was not for, put back, and later returned
\* to its own caller, while the other caller ran into its deadline.
C27_Witness ==
    /\ deployment = "pool"
    /\ \E r \in requeued, d \in delivered :
          /\ r.task = d.task
          /\ d.to = d.task
          /\ r.by # d.to
          /\ outcome[r.by].kind = "timeout"


\* ------------------------------------------------------------------ C28
\* The Task of call c, held by an Executor that died, is gone for good: not on
\* the queue, dequeued once, never executed to the end, no Result of it
\* published.
LostForGood(c) ==
    /\ QueuedCount(c) = 0
    /\ claimed[c] = 1
    /\ Holders(c) = {}
    /\ c \notin finished
    /\ \A p \in published : p.task # c

\* C28: a Task claimed by an Executor that crashes or is terminated before
\* publishing is never put back on the queue nor claimed by another Executor,
\* it is run at most once, no Result is published for it, and its caller's
\* dispatch ends in Timeout.
C28_CrashedTaskTimesOut ==
    \A c \in lost :
        /\ LostForGood(c)
        /\ pc[c] = "done" => outcome[c].kind = "timeout"


\* ===================================== cache keys of texts with delimiters
\* The texts of a request: letters and the character the gateway's key joins
\* its fields with (":" in cluster_master.py:58, "|" in api_server.py:64).
MaxKeyLen == 2
MaxKeyed == 1
MaxAsked == 1

Delimiter == IF deployment = "cluster" THEN ":" ELSE "|"

KeyTexts == SeqsUpTo({"a", ":", "|"}, MaxKeyLen) \ {<<>>}

KeyLimits == {<<"1">>, <<"2">>}

KeyRequests == [query : KeyTexts, location : KeyTexts, limit : KeyLimits,
                use_cache : {TRUE}]

\* The texts of r hold no delimiter but the gateway's own.
OwnDelimiter(r) ==
    \A i \in 1..Len(r.query \o r.location) :
        (r.query \o r.location)[i] \in {"a", Delimiter}

\* set_cached_result (cluster_master.py:70-73) and cache_memory[cache_key] =
\* result (api_server.py:171): the Result of request r is cached under r's key.
KeyedStore(r) ==
    /\ OwnDelimiter(r)
    /\ Cardinality(DOMAIN keyed.store) < MaxKeyed
    /\ keyed' = [keyed EXCEPT !.store = Put(keyed.store, Fingerprint(r), r)]
    /\ UNCHANGED <<deployment, now, callVars, redisVars, workerVars, poolVars, histVars>>
    /\ UNCHANGED <<askVars, clearVars, searchVars, leaseVars, statVars, stopVars,
                   extraction, lost, hpc, hreg, mstats>>

\* get_cached_result (cluster_master.py:61-68) and cache_key in cache_memory
\* (api_server.py:131-136): request r is answered with what its key holds.
KeyedLookup(r) ==
    /\ OwnDelimiter(r)
    /\ keyed.store # <<>>
    /\ Len(keyed.asked) < MaxAsked
    /\ keyed' = [keyed EXCEPT !.asked = Append(keyed.asked, r),
                              !.got = IF Fingerprint(r) \in DOMAIN keyed.store
                                      THEN <<keyed.store[Fingerprint(r)]>>
                                      ELSE <<>>]
    /\ UNCHANGED <<deployment, now, callVars, redisVars, workerVars, poolVars, histVars>>
    /\ UNCHANGED <<askVars, clearVars, searchVars, leaseVars, statVars, stopVars,
                   extraction, lost, hpc, hreg, mstats>>

\* The request looked up last.
LastAsked == keyed.asked[Len(keyed.asked)]

KeyedNext ==
    \/ \E r \in KeyRequests : KeyedStore(r)
    \/ \E r \in KeyRequests : KeyedLookup(r)

KeyedSpec == Init /\ [][KeyedNext]_vars

\* ======================================== the master's request counters
\* cluster_master.py search 121-182 as far as the dict stats goes.  Flask serves
\* each request on a thread of its own and stats[k] += 1 is a read of stats[k]
\* followed by a write, with no lock: the two are steps of their own.
Counter(p) ==
    CASE p \in {"total", "total_nocache"} -> "total_requests"
      [] p = "hits" -> "cache_hits"
      [] p = "successful" -> "successful"
      [] OTHER -> "failed"

Incrementing == {"total", "total_nocache", "hits", "successful", "failed"}

\* What follows the += 1 made at p: the cache lookup or the enqueue and wait
\* (136, 143), the return of the cached Result (140), set_cached_result (166),
\* the return of the error (172, 178, 182).
AfterIncrement(p) ==
    CASE p = "total" -> "lookup"
      [] p = "total_nocache" -> "wait"
      [] p = "successful" -> "cache"
      [] OTHER -> "done"

CountFrame ==
    /\ UNCHANGED <<deployment, now, callVars, redisVars, workerVars, poolVars, histVars>>
    /\ UNCHANGED <<askVars, clearVars, searchVars, leaseVars, statVars, stopVars,
                   extraction, lost, keyed>>

\* Lines 125-134: the parameters; a request without query or location is
\* answered 400 before anything is counted.
CountBegin(c, valid, use_cache) ==
    /\ deployment = "cluster"
    /\ hpc[c] = "idle"
    /\ hpc' = [hpc EXCEPT ![c] = IF ~valid THEN "done"
                                 ELSE IF use_cache THEN "total" ELSE "total_nocache"]
    /\ UNCHANGED <<hreg, mstats>>
    /\ CountFrame

\* stats[k] += 1, first half: the value of stats[k] is read.
CountLoad(c) ==
    /\ deployment = "cluster"
    /\ hpc[c] \in Incrementing
    /\ hreg[c] = 0
    /\ hreg' = [hreg EXCEPT ![c] = mstats[Counter(hpc[c])] + 1]
    /\ UNCHANGED <<hpc, mstats>>
    /\ CountFrame

\* stats[k] += 1, second half: the value read, plus one, is written.
CountStore(c) ==
    /\ deployment = "cluster"
    /\ hpc[c] \in Incrementing
    /\ hreg[c] # 0
    /\ mstats' = [mstats EXCEPT ![Counter(hpc[c])] = hreg[c]]
    /\ hreg' = [hreg EXCEPT ![c] = 0]
    /\ hpc' = [hpc EXCEPT ![c] = AfterIncrement(hpc[c])]
    /\ CountFrame

\* Lines 136-140 and get_cached_result 61-68: the key is found, is not found, or
\* Redis raises and the except clause of 180 takes over.
CountLookup(c, res) ==
    /\ deployment = "cluster"
    /\ hpc[c] = "lookup"
    /\ hpc' = [hpc EXCEPT ![c] = CASE res = "hit" -> "hits"
                                   [] res = "miss" -> "wait"
                                   [] OTHER -> "failed"]
    /\ UNCHANGED <<hreg, mstats>>
    /\ CountFrame

\* Lines 143-178: the Task is enqueued and the key polled: a success Result, an
\* error Result, the deadline, or Redis raising.
CountWait(c, res) ==
    /\ deployment = "cluster"
    /\ hpc[c] = "wait"
    /\ hpc' = [hpc EXCEPT ![c] = IF res = "success" THEN "successful" ELSE "failed"]
    /\ UNCHANGED <<hreg, mstats>>
    /\ CountFrame

\* Line 166 and set_cached_result 70-73: SETEX of the cache key; when it raises
\* the except clause of 180 takes over.
CountCache(c, ok) ==
    /\ deployment = "cluster"
    /\ hpc[c] = "cache"
    /\ hpc' = [hpc EXCEPT ![c] = IF ok THEN "done" ELSE "failed"]
    /\ UNCHANGED <<hreg, mstats>>
    /\ CountFrame

CountNext ==
    \/ \E c \in Calls, valid \in BOOLEAN, use_cache \in BOOLEAN : CountBegin(c, valid, use_cache)
    \/ \E c \in Calls : CountLoad(c)
    \/ \E c \in Calls : CountStore(c)
    \/ \E c \in Calls, res \in {"hit", "miss", "raise"} : CountLookup(c, res)
    \/ \E c \in Calls, res \in {"success", "error", "timeout", "raise"} : CountWait(c, res)
    \/ \E c \in Calls, ok \in BOOLEAN : CountCache(c, ok)

CountSpec == Init /\ [][CountNext]_vars

\* ------------------------------------------------------------------ C29
\* C29: two requests share a cache key only if their normalized (query,
\* location, limit) are equal, however their texts are split around the key's
\* delimiter: a request is answered from the cache only with the Result cached
\* for a request with the same normalized query and location (stated for
\* requests with one limit; requests that differ in limit alone are C13's).
C29_KeyInjective ==
    (keyed.got # <<>> /\ RequestLimit(keyed.got[1]) = RequestLimit(LastAsked))
        => SameNormalized(keyed.got[1], LastAsked)


\* ------------------------------------------------------------------ C30
\* C30: the master counts every validated request once and with one outcome:
\* whenever no request is in flight, total_requests = cache_hits + successful +
\* failed, in every interleaving of concurrent requests and for every outcome,
\* an exception such as a store failure while caching included.
C30_CountersAddUp ==
    (\A c \in Calls : hpc[c] \in {"idle", "done"}) =>
        mstats.total_requests = mstats.cache_hits + mstats.successful + mstats.failed


\* ------------------------------------------------------------------ C31
\* The dict d returned by get_stats is consistent.
ConsistentSnapshot(d) ==
    /\ d.successful_searches + d.failed_searches <= d.total_searches
    /\ ~d.success_rate.raised /\ d.success_rate.value <= 10000
    /\ 0 <= d.busy_workers /\ d.busy_workers <= d.total_workers
    /\ d.available_workers = d.total_workers - d.busy_workers

\* C31: every snapshot WorkerPool.get_stats returns while the workers are
\* running is consistent (successful + failed <= total, so success_rate <= 100;
\* 0 <= busy_workers <= total_workers; available_workers = total_workers -
\* busy_workers), and get_stats changes no counter, queue or worker state.
C31_SnapshotConsistent ==
    [][(stpc = "summing" /\ stpc' = "idle") =>
           /\ ConsistentSnapshot(pool_stats')
           /\ UNCHANGED <<searchVars, poolVars>>]_vars


\* ------------------------------------------------------------------ C32
\* C32: during WorkerPool.stop no worker thread uses its browser session after
\* stop has released it: a search that is under way when stop runs, or that a
\* thread starts on a Task still queued, ends on a session that is still open.
C32_NoUseAfterClose ==
    [][\A w \in Workers :
          (tpc[w] = "search" /\ tpc'[w] # "search") => driver[w] = "open"]_vars

====
